---- MODULE Spec2Model ----
(***************************************************************************)
(* Image Analysis & Suggestion Ranking Engine of realtyphotoai             *)
(* (src/src/services/ai_service.py).                                       *)
(*                                                                         *)
(* Python str values are TLA+ strings; substring tests, lower() and        *)
(* replace() are computed character by character.  Probabilities and       *)
(* confidences are integers in percent (0.9 is 90, 0.3 is 30).             *)
(***************************************************************************)
EXTENDS Integers, Sequences, FiniteSets, TLC

VARIABLES
    caption,        \* the caption string handed to the caption-driven helpers
    enhancement_db, \* RealEstateAIService.enhancement_db.suggestions
    analysis,       \* the ImageAnalysisResult the caller holds, or None
    call,           \* the last helper applied: its name, inputs and return value
    models_loaded,  \* ModelManager._models_loaded
    model_handles,  \* ModelManager's four handles: 0 for None, else the number
                    \* of the load_models call that assigned it
    load_calls,     \* how many times load_models has been called
    temp_files,     \* the files in settings.temp_dir
    requests        \* how many requests the API has taken

manager_vars == << models_loaded, model_handles, load_calls >>

file_vars == << temp_files, requests >>

vars == << caption, enhancement_db, analysis, call, manager_vars, file_vars >>

-----------------------------------------------------------------------------
(* Python string primitives                                                *)

UpperAlphabet == "ABCDEFGHIJKLMNOPQRSTUVWXYZ"
LowerAlphabet == "abcdefghijklmnopqrstuvwxyz"

\* one character of str.lower()
LowerChar(c) ==
    IF \E i \in 1..Len(UpperAlphabet) : SubSeq(UpperAlphabet, i, i) = c
    THEN LET i == CHOOSE j \in 1..Len(UpperAlphabet) : SubSeq(UpperAlphabet, j, j) = c
         IN  SubSeq(LowerAlphabet, i, i)
    ELSE c

\* str.lower()
RECURSIVE Lower(_)
Lower(s) ==
    IF Len(s) = 0 THEN ""
    ELSE LowerChar(SubSeq(s, 1, 1)) \o Lower(SubSeq(s, 2, Len(s)))

\* str.replace(old, new) for a one-character old
RECURSIVE Replace(_, _, _)
Replace(s, old, new) ==
    IF Len(s) = 0 THEN ""
    ELSE (IF SubSeq(s, 1, 1) = old THEN new ELSE SubSeq(s, 1, 1))
         \o Replace(SubSeq(s, 2, Len(s)), old, new)

\* the Python test  t in s  on strings
Contains(s, t) ==
    \E i \in 1..(Len(s) - Len(t) + 1) : SubSeq(s, i, i + Len(t) - 1) = t

\* " ".join(words)
RECURSIVE Join(_)
Join(words) ==
    IF Len(words) = 0 THEN ""
    ELSE IF Len(words) = 1 THEN words[1]
    ELSE words[1] \o " " \o Join(Tail(words))

-----------------------------------------------------------------------------
(* Enhancement knowledge base: EnhancementDatabase._load_suggestions       *)

\* ai_service.py:111-136  suggestions["living_room"]["modern"]
Kb_living_room_modern ==
    << [suggestion |-> "Add a sleek sectional sofa in neutral tones, remove outdated furniture",
        priority |-> "high", category |-> "furniture", estimated_impact |-> "high"],
       [suggestion |-> "Install contemporary lighting fixtures, enhance natural light",
        priority |-> "medium", category |-> "lighting", estimated_impact |-> "medium"],
       [suggestion |-> "Add modern coffee table with clean lines, declutter surfaces",
        priority |-> "medium", category |-> "furniture", estimated_impact |-> "medium"],
       [suggestion |-> "Enhance walls with modern art pieces, remove personal items",
        priority |-> "low", category |-> "decor", estimated_impact |-> "low"] >>

\* ai_service.py:137-162  suggestions["living_room"]["traditional"]
Kb_living_room_traditional ==
    << [suggestion |-> "Add classic leather armchair in rich brown, remove clutter",
        priority |-> "high", category |-> "furniture", estimated_impact |-> "high"],
       [suggestion |-> "Enhance fireplace with elegant mantelpiece decor, organize books",
        priority |-> "medium", category |-> "decor", estimated_impact |-> "medium"],
       [suggestion |-> "Add traditional area rug with warm patterns, remove worn items",
        priority |-> "medium", category |-> "decor", estimated_impact |-> "medium"],
       [suggestion |-> "Install classic table lamps, improve ambient lighting",
        priority |-> "low", category |-> "lighting", estimated_impact |-> "low"] >>

\* ai_service.py:163-188  suggestions["living_room"]["rustic"]
Kb_living_room_rustic ==
    << [suggestion |-> "Add reclaimed wood coffee table, remove modern elements",
        priority |-> "high", category |-> "furniture", estimated_impact |-> "high"],
       [suggestion |-> "Enhance with cozy throw blankets and pillows, declutter",
        priority |-> "medium", category |-> "decor", estimated_impact |-> "medium"],
       [suggestion |-> "Add vintage wooden accents, remove plastic items",
        priority |-> "medium", category |-> "decor", estimated_impact |-> "medium"],
       [suggestion |-> "Install wrought iron lighting fixtures, create warm ambiance",
        priority |-> "low", category |-> "lighting", estimated_impact |-> "low"] >>

\* ai_service.py:191-216  suggestions["kitchen"]["modern"]
Kb_kitchen_modern ==
    << [suggestion |-> "Enhance countertops with quartz surfaces, remove clutter including dishes",
        priority |-> "high", category |-> "surfaces", estimated_impact |-> "high"],
       [suggestion |-> "Add stainless steel appliances, remove outdated equipment",
        priority |-> "high", category |-> "appliances", estimated_impact |-> "high"],
       [suggestion |-> "Install pendant lighting over island, improve task lighting",
        priority |-> "medium", category |-> "lighting", estimated_impact |-> "medium"],
       [suggestion |-> "Add modern bar stools, remove mismatched seating",
        priority |-> "low", category |-> "furniture", estimated_impact |-> "low"] >>

\* ai_service.py:217-242  suggestions["kitchen"]["traditional"]
Kb_kitchen_traditional ==
    << [suggestion |-> "Enhance with granite countertops, organize cooking utensils",
        priority |-> "high", category |-> "surfaces", estimated_impact |-> "high"],
       [suggestion |-> "Add wooden cutting boards and copper accents, remove clutter",
        priority |-> "medium", category |-> "decor", estimated_impact |-> "medium"],
       [suggestion |-> "Install classic cabinet hardware, update drawer pulls",
        priority |-> "medium", category |-> "fixtures", estimated_impact |-> "medium"],
       [suggestion |-> "Add traditional ceramic backsplash, remove worn tiles",
        priority |-> "low", category |-> "surfaces", estimated_impact |-> "low"] >>

\* ai_service.py:245-270  suggestions["bedroom"]["modern"]
Kb_bedroom_modern ==
    << [suggestion |-> "Add platform bed with clean lines, remove personal items",
        priority |-> "high", category |-> "furniture", estimated_impact |-> "high"],
       [suggestion |-> "Enhance with minimalist nightstands, declutter surfaces",
        priority |-> "medium", category |-> "furniture", estimated_impact |-> "medium"],
       [suggestion |-> "Install contemporary lighting, improve ambient mood",
        priority |-> "medium", category |-> "lighting", estimated_impact |-> "medium"],
       [suggestion |-> "Add modern dresser with sleek handles, organize clothing",
        priority |-> "low", category |-> "furniture", estimated_impact |-> "low"] >>

\* ai_service.py:271-296  suggestions["bedroom"]["traditional"]
Kb_bedroom_traditional ==
    << [suggestion |-> "Add classic wooden bed frame, remove modern elements",
        priority |-> "high", category |-> "furniture", estimated_impact |-> "high"],
       [suggestion |-> "Enhance with traditional bedding and pillows, organize linens",
        priority |-> "medium", category |-> "decor", estimated_impact |-> "medium"],
       [suggestion |-> "Install elegant table lamps, create warm lighting",
        priority |-> "medium", category |-> "lighting", estimated_impact |-> "medium"],
       [suggestion |-> "Add antique dresser with ornate details, declutter",
        priority |-> "low", category |-> "furniture", estimated_impact |-> "low"] >>

\* ai_service.py:299-324  suggestions["bathroom"]["modern"]
Kb_bathroom_modern ==
    << [suggestion |-> "Enhance vanity with modern vessel sink, remove personal toiletries",
        priority |-> "high", category |-> "fixtures", estimated_impact |-> "high"],
       [suggestion |-> "Add frameless glass shower doors, update outdated fixtures",
        priority |-> "medium", category |-> "fixtures", estimated_impact |-> "medium"],
       [suggestion |-> "Install contemporary faucets and hardware, remove rust stains",
        priority |-> "medium", category |-> "fixtures", estimated_impact |-> "medium"],
       [suggestion |-> "Add modern mirror with LED lighting, improve visibility",
        priority |-> "low", category |-> "lighting", estimated_impact |-> "low"] >>

\* ai_service.py:325-350  suggestions["bathroom"]["traditional"]
Kb_bathroom_traditional ==
    << [suggestion |-> "Enhance with classic pedestal sink, organize bathroom items",
        priority |-> "high", category |-> "fixtures", estimated_impact |-> "high"],
       [suggestion |-> "Add traditional shower curtain, remove worn fixtures",
        priority |-> "medium", category |-> "fixtures", estimated_impact |-> "medium"],
       [suggestion |-> "Install vintage-style faucets, update hardware",
        priority |-> "medium", category |-> "fixtures", estimated_impact |-> "medium"],
       [suggestion |-> "Add ornate mirror frame, improve lighting",
        priority |-> "low", category |-> "lighting", estimated_impact |-> "low"] >>

Suggestions ==
    [ living_room |-> [ modern |-> Kb_living_room_modern, traditional |-> Kb_living_room_traditional, rustic |-> Kb_living_room_rustic ],
      kitchen |-> [ modern |-> Kb_kitchen_modern, traditional |-> Kb_kitchen_traditional ],
      bedroom |-> [ modern |-> Kb_bedroom_modern, traditional |-> Kb_bedroom_traditional ],
      bathroom |-> [ modern |-> Kb_bathroom_modern, traditional |-> Kb_bathroom_traditional ] ]
\* the record get_suggestions returns for a room the knowledge base lacks
DefaultSuggestions ==
    << [suggestion |-> "Add modern furniture pieces, remove clutter and personal items",
        priority |-> "high", category |-> "general", estimated_impact |-> "high"] >>

\* faulty variant of get_suggestions: a room without a table gets no
\* suggestion at all
get_suggestions_empty_for_unknown_room(db, room_type, style) ==
    LET room_key  == Lower(Replace(room_type, " ", "_"))
        style_key == Lower(style)
    IN  IF room_key \in DOMAIN db
        THEN IF style_key \in DOMAIN db[room_key]
             THEN db[room_key][style_key]
             ELSE IF "modern" \in DOMAIN db[room_key]
                  THEN db[room_key]["modern"]
                  ELSE << >>
        ELSE << >>

\* faulty variant of get_suggestions: a room without a table gets the
\* living room's "modern" list
get_suggestions_living_room_default(db, room_type, style) ==
    LET room_key  == Lower(Replace(room_type, " ", "_"))
        style_key == Lower(style)
    IN  IF room_key \in DOMAIN db
        THEN IF style_key \in DOMAIN db[room_key]
             THEN db[room_key][style_key]
             ELSE IF "modern" \in DOMAIN db[room_key]
                  THEN db[room_key]["modern"]
                  ELSE << >>
        ELSE db["living_room"]["modern"]

\* faulty variant of get_suggestions: a missing style goes straight to the
\* generic record, skipping the room's "modern" list
get_suggestions_no_modern_fallback(db, room_type, style) ==
    LET room_key  == Lower(Replace(room_type, " ", "_"))
        style_key == Lower(style)
    IN  IF room_key \in DOMAIN db /\ style_key \in DOMAIN db[room_key]
        THEN db[room_key][style_key]
        ELSE << [suggestion |-> "Add modern furniture pieces, remove clutter and personal items",
                 priority |-> "high", category |-> "general", estimated_impact |-> "high"] >>

\* EnhancementDatabase.get_suggestions on the table db (self.suggestions)
get_suggestions(db, room_type, style) ==
    LET room_key  == Lower(Replace(room_type, " ", "_"))
        style_key == Lower(style)
    IN  IF room_key \in DOMAIN db
        THEN IF style_key \in DOMAIN db[room_key]
             THEN db[room_key][style_key]
             ELSE IF "modern" \in DOMAIN db[room_key]
                  THEN db[room_key]["modern"]
                  ELSE << >>
        ELSE DefaultSuggestions

-----------------------------------------------------------------------------
(* RealEstateAIService: label sets and keyword tables                      *)

room_types ==
    << "living room", "bedroom", "kitchen", "bathroom", "dining room",
       "balcony", "garden", "pool area", "bungalow", "office", "basement" >>

style_types ==
    << "modern", "contemporary", "traditional", "rustic", "industrial",
       "minimalist", "vintage", "scandinavian", "mediterranean", "colonial" >>

\* the dict of _identify_style, in insertion order
style_keywords ==
    << [style |-> "modern",      keywords |-> << "modern", "contemporary", "sleek", "minimalist" >>],
       [style |-> "traditional", keywords |-> << "traditional", "classic", "vintage", "antique" >>],
       [style |-> "rustic",      keywords |-> << "rustic", "wooden", "natural", "country" >>],
       [style |-> "industrial",  keywords |-> << "industrial", "metal", "concrete", "exposed" >>] >>

\* the dict of _detect_editable_areas, in insertion order
editable_elements ==
    << [category |-> "furniture",  elements |-> << "chair", "sofa", "table", "bed", "dresser", "cabinet" >>],
       [category |-> "lighting",   elements |-> << "lamp", "light", "chandelier", "fixture" >>],
       [category |-> "decor",      elements |-> << "pillow", "cushion", "artwork", "plant", "vase" >>],
       [category |-> "surfaces",   elements |-> << "counter", "countertop", "floor", "wall" >>],
       [category |-> "appliances", elements |-> << "refrigerator", "stove", "microwave", "dishwasher" >>],
       [category |-> "fixtures",   elements |-> << "sink", "faucet", "shower", "bathtub" >>] >>

clutter_keywords ==
    << "messy", "cluttered", "disorganized", "scattered", "pile", "stack",
       "dishes", "papers", "clothes", "items", "stuff", "things" >>

empty_keywords ==
    << "empty", "bare", "vacant", "spacious", "open", "minimal", "clean" >>

\* confidence reported for a caption keyword match (0.9)
CaptionMatchConfidence == 90
\* confidence reported when classification raised (0.5)
FailureConfidence == 50
\* the classifier's arg-max is used above these probabilities (0.3, 0.25)
RoomThreshold == 30
StyleThreshold == 25

\* the caption _generate_caption returns when the captioning model raised
FallbackCaption == "A room interior"

\* any(keyword in text for keyword in keywords)
AnyKeywordIn(keywords, text) ==
    \E i \in 1..Len(keywords) : Contains(text, keywords[i])

\* sum(1 for keyword in keywords if keyword in text)
CountKeywordsIn(keywords, text) ==
    Cardinality({ i \in 1..Len(keywords) : Contains(text, keywords[i]) })

Min(S) == CHOOSE m \in S : \A n \in S : m <= n

-----------------------------------------------------------------------------
(* Room/Style Identifier.  clf is what the CLIP call produced: its arg-max *)
(* index and probability, or ok = FALSE when the call raised.              *)

Raised == [ok |-> FALSE]

\* faulty variant of _identify_room_type: the caption keeps its spaces
_identify_room_type_unstripped(cap, clf) ==
    IF ~clf.ok
    THEN [label |-> "living room", confidence |-> FailureConfidence]
    ELSE LET caption_lower == Lower(cap)
             matches == { i \in 1..Len(room_types) :
                            Contains(caption_lower, Replace(room_types[i], " ", "")) }
         IN  IF matches # {}
             THEN [label |-> room_types[Min(matches)], confidence |-> CaptionMatchConfidence]
             ELSE [label |-> IF clf.prob > RoomThreshold
                             THEN room_types[clf.idx] ELSE "living room",
                   confidence |-> clf.prob]

\* faulty variant of _identify_room_type: the threshold itself passes
_identify_room_type_at_threshold(cap, clf) ==
    IF ~clf.ok
    THEN [label |-> "living room", confidence |-> FailureConfidence]
    ELSE LET caption_lower == Lower(cap)
             stripped == Replace(caption_lower, " ", "")
             matches == { i \in 1..Len(room_types) :
                            Contains(stripped, Replace(room_types[i], " ", "")) }
         IN  IF matches # {}
             THEN [label |-> room_types[Min(matches)], confidence |-> CaptionMatchConfidence]
             ELSE [label |-> IF clf.prob >= RoomThreshold
                             THEN room_types[clf.idx] ELSE "living room",
                   confidence |-> clf.prob]

\* faulty variant of _identify_room_type: after a failed classifier call
\* the caption keywords are still consulted
_identify_room_type_keywords_after_failure(cap, clf) ==
    LET caption_lower == Lower(cap)
        stripped == Replace(caption_lower, " ", "")
        matches == { i \in 1..Len(room_types) :
                       Contains(stripped, Replace(room_types[i], " ", "")) }
    IN  IF matches # {}
        THEN [label |-> room_types[Min(matches)], confidence |-> CaptionMatchConfidence]
        ELSE IF ~clf.ok
        THEN [label |-> "living room", confidence |-> FailureConfidence]
        ELSE [label |-> IF clf.prob > RoomThreshold
                        THEN room_types[clf.idx] ELSE "living room",
              confidence |-> clf.prob]

\* RealEstateAIService._identify_room_type
_identify_room_type(cap, clf) ==
    IF ~clf.ok
    THEN [label |-> "living room", confidence |-> FailureConfidence]
    ELSE LET caption_lower == Lower(cap)
             stripped == Replace(caption_lower, " ", "")
             matches == { i \in 1..Len(room_types) :
                            Contains(stripped, Replace(room_types[i], " ", "")) }
         IN  IF matches # {}
             THEN [label |-> room_types[Min(matches)], confidence |-> CaptionMatchConfidence]
             ELSE [label |-> IF clf.prob > RoomThreshold
                             THEN room_types[clf.idx] ELSE "living room",
                   confidence |-> clf.prob]

\* faulty variant of _identify_style: the caption is searched for the style
\* names themselves, not for the synonyms of the table
_identify_style_exact_names(cap, clf) ==
    IF ~clf.ok
    THEN [label |-> "modern", confidence |-> FailureConfidence]
    ELSE LET caption_lower == Lower(cap)
             matches == { i \in 1..Len(style_keywords) :
                            Contains(caption_lower, style_keywords[i].style) }
         IN  IF matches # {}
             THEN [label |-> style_keywords[Min(matches)].style,
                   confidence |-> CaptionMatchConfidence]
             ELSE [label |-> IF clf.prob > StyleThreshold
                             THEN style_types[clf.idx] ELSE "modern",
                   confidence |-> clf.prob]

\* faulty variant of _identify_style: the threshold itself passes
_identify_style_at_threshold(cap, clf) ==
    IF ~clf.ok
    THEN [label |-> "modern", confidence |-> FailureConfidence]
    ELSE LET caption_lower == Lower(cap)
             matches == { i \in 1..Len(style_keywords) :
                            AnyKeywordIn(style_keywords[i].keywords, caption_lower) }
         IN  IF matches # {}
             THEN [label |-> style_keywords[Min(matches)].style,
                   confidence |-> CaptionMatchConfidence]
             ELSE [label |-> IF clf.prob >= StyleThreshold
                             THEN style_types[clf.idx] ELSE "modern",
                   confidence |-> clf.prob]

\* RealEstateAIService._identify_style
_identify_style(cap, clf) ==
    IF ~clf.ok
    THEN [label |-> "modern", confidence |-> FailureConfidence]
    ELSE LET caption_lower == Lower(cap)
             matches == { i \in 1..Len(style_keywords) :
                            AnyKeywordIn(style_keywords[i].keywords, caption_lower) }
         IN  IF matches # {}
             THEN [label |-> style_keywords[Min(matches)].style,
                   confidence |-> CaptionMatchConfidence]
             ELSE [label |-> IF clf.prob > StyleThreshold
                             THEN style_types[clf.idx] ELSE "modern",
                   confidence |-> clf.prob]

-----------------------------------------------------------------------------
(* Editable-Area Detector                                                  *)

\* the entries one category contributes, in keyword order
RECURSIVE ElementsIn(_, _, _)
ElementsIn(category, elements, text) ==
    IF Len(elements) = 0 THEN << >>
    ELSE (IF Contains(text, Head(elements))
          THEN << category \o ": " \o Head(elements) >> ELSE << >>)
         \o ElementsIn(category, Tail(elements), text)

RECURSIVE AreasIn(_, _)
AreasIn(table, text) ==
    IF Len(table) = 0 THEN << >>
    ELSE ElementsIn(Head(table).category, Head(table).elements, text)
         \o AreasIn(Tail(table), text)

\* faulty variant of _detect_editable_areas: the categories are visited
\* last to first
_detect_editable_areas_reverse_categories(cap) ==
    AreasIn([ i \in 1..Len(editable_elements) |->
                editable_elements[Len(editable_elements) + 1 - i] ],
            Lower(cap))

\* RealEstateAIService._detect_editable_areas
_detect_editable_areas(cap) == AreasIn(editable_elements, Lower(cap))

-----------------------------------------------------------------------------
(* Clutter & Space Analyzer                                                *)

\* faulty variant of _analyze_clutter_and_spaces: has_clutter is tested on
\* the caption as given, not on the lowercased one
_analyze_clutter_and_spaces_case_sensitive(cap) ==
    LET caption_lower    == Lower(cap)
        has_clutter      == AnyKeywordIn(clutter_keywords, cap)
        has_empty_spaces == AnyKeywordIn(empty_keywords, caption_lower)
        clutter_count    == CountKeywordsIn(clutter_keywords, caption_lower)
    IN  [ has_clutter       |-> has_clutter,
          has_empty_spaces  |-> has_empty_spaces,
          clutter_level     |-> IF clutter_count >= 3 THEN "high"
                                ELSE IF clutter_count >= 1 THEN "medium"
                                ELSE "low",
          space_utilization |-> IF has_empty_spaces THEN "underutilized"
                                ELSE IF has_clutter THEN "overcrowded"
                                ELSE "well_utilized" ]

\* faulty variant of _analyze_clutter_and_spaces: the clutter signal is
\* tested before the empty-space signal
_analyze_clutter_and_spaces_clutter_first(cap) ==
    LET caption_lower    == Lower(cap)
        has_clutter      == AnyKeywordIn(clutter_keywords, caption_lower)
        has_empty_spaces == AnyKeywordIn(empty_keywords, caption_lower)
        clutter_count    == CountKeywordsIn(clutter_keywords, caption_lower)
    IN  [ has_clutter       |-> has_clutter,
          has_empty_spaces  |-> has_empty_spaces,
          clutter_level     |-> IF clutter_count >= 3 THEN "high"
                                ELSE IF clutter_count >= 1 THEN "medium"
                                ELSE "low",
          space_utilization |-> IF has_clutter THEN "overcrowded"
                                ELSE IF has_empty_spaces THEN "underutilized"
                                ELSE "well_utilized" ]

\* faulty variant of _analyze_clutter_and_spaces: two keywords already
\* make the level high
_analyze_clutter_and_spaces_high_from_two(cap) ==
    LET caption_lower    == Lower(cap)
        has_clutter      == AnyKeywordIn(clutter_keywords, caption_lower)
        has_empty_spaces == AnyKeywordIn(empty_keywords, caption_lower)
        clutter_count    == CountKeywordsIn(clutter_keywords, caption_lower)
    IN  [ has_clutter       |-> has_clutter,
          has_empty_spaces  |-> has_empty_spaces,
          clutter_level     |-> IF clutter_count >= 2 THEN "high"
                                ELSE IF clutter_count >= 1 THEN "medium"
                                ELSE "low",
          space_utilization |-> IF has_empty_spaces THEN "underutilized"
                                ELSE IF has_clutter THEN "overcrowded"
                                ELSE "well_utilized" ]

\* the number of places of a text where some keyword of a list starts
RECURSIVE CountOccurrences(_, _)
CountOccurrences(keywords, text) ==
    IF Len(keywords) = 0 THEN 0
    ELSE Cardinality({ i \in 1..(Len(text) - Len(Head(keywords)) + 1) :
                          SubSeq(text, i, i + Len(Head(keywords)) - 1) = Head(keywords) })
         + CountOccurrences(Tail(keywords), text)

\* faulty variant of _analyze_clutter_and_spaces: every occurrence of a
\* keyword is counted
_analyze_clutter_and_spaces_occurrences(cap) ==
    LET caption_lower    == Lower(cap)
        has_clutter      == AnyKeywordIn(clutter_keywords, caption_lower)
        has_empty_spaces == AnyKeywordIn(empty_keywords, caption_lower)
        clutter_count    == CountOccurrences(clutter_keywords, caption_lower)
    IN  [ has_clutter       |-> has_clutter,
          has_empty_spaces  |-> has_empty_spaces,
          clutter_level     |-> IF clutter_count >= 3 THEN "high"
                                ELSE IF clutter_count >= 1 THEN "medium"
                                ELSE "low",
          space_utilization |-> IF has_empty_spaces THEN "underutilized"
                                ELSE IF has_clutter THEN "overcrowded"
                                ELSE "well_utilized" ]

\* RealEstateAIService._analyze_clutter_and_spaces
_analyze_clutter_and_spaces(cap) ==
    LET caption_lower    == Lower(cap)
        has_clutter      == AnyKeywordIn(clutter_keywords, caption_lower)
        has_empty_spaces == AnyKeywordIn(empty_keywords, caption_lower)
        clutter_count    == CountKeywordsIn(clutter_keywords, caption_lower)
    IN  [ has_clutter       |-> has_clutter,
          has_empty_spaces  |-> has_empty_spaces,
          clutter_level     |-> IF clutter_count >= 3 THEN "high"
                                ELSE IF clutter_count >= 1 THEN "medium"
                                ELSE "low",
          space_utilization |-> IF has_empty_spaces THEN "underutilized"
                                ELSE IF has_clutter THEN "overcrowded"
                                ELSE "well_utilized" ]

-----------------------------------------------------------------------------
(* Suggestion Ranker                                                       *)

\* faulty variant of _customize_suggestion: "remove" is searched in the
\* text as written
_customize_suggestion_case_sensitive(suggestion_data, an) ==
    LET bump == an.clutter_analysis.has_clutter
                /\ Contains(suggestion_data.suggestion, "remove")
        priority == IF bump /\ suggestion_data.priority = "low" THEN "medium"
                    ELSE IF bump /\ suggestion_data.priority = "medium" THEN "high"
                    ELSE suggestion_data.priority
        text == IF an.clutter_analysis.clutter_level = "high"
                   /\ ~Contains(Lower(suggestion_data.suggestion), "remove clutter")
                THEN suggestion_data.suggestion \o ", prioritize decluttering"
                ELSE suggestion_data.suggestion
    IN  [suggestion_data EXCEPT !.priority = priority, !.suggestion = text]

\* faulty variant of _customize_suggestion: the suffix is added for any
\* clutter, not only for a high level
_customize_suggestion_suffix_on_any_clutter(suggestion_data, an) ==
    LET bump == an.clutter_analysis.has_clutter
                /\ Contains(Lower(suggestion_data.suggestion), "remove")
        priority == IF bump /\ suggestion_data.priority = "low" THEN "medium"
                    ELSE IF bump /\ suggestion_data.priority = "medium" THEN "high"
                    ELSE suggestion_data.priority
        text == IF an.clutter_analysis.has_clutter
                   /\ ~Contains(Lower(suggestion_data.suggestion), "remove clutter")
                THEN suggestion_data.suggestion \o ", prioritize decluttering"
                ELSE suggestion_data.suggestion
    IN  [suggestion_data EXCEPT !.priority = priority, !.suggestion = text]

\* faulty variant of _customize_suggestion: at high clutter the suffix is
\* appended whatever the text already says
_customize_suggestion_suffix_whenever_high(suggestion_data, an) ==
    LET bump == an.clutter_analysis.has_clutter
                /\ Contains(Lower(suggestion_data.suggestion), "remove")
        priority == IF bump /\ suggestion_data.priority = "low" THEN "medium"
                    ELSE IF bump /\ suggestion_data.priority = "medium" THEN "high"
                    ELSE suggestion_data.priority
        text == IF an.clutter_analysis.clutter_level = "high"
                THEN suggestion_data.suggestion \o ", prioritize decluttering"
                ELSE suggestion_data.suggestion
    IN  [suggestion_data EXCEPT !.priority = priority, !.suggestion = text]

\* RealEstateAIService._customize_suggestion
_customize_suggestion(suggestion_data, an) ==
    LET bump == an.clutter_analysis.has_clutter
                /\ Contains(Lower(suggestion_data.suggestion), "remove")
        priority == IF bump /\ suggestion_data.priority = "low" THEN "medium"
                    ELSE IF bump /\ suggestion_data.priority = "medium" THEN "high"
                    ELSE suggestion_data.priority
        text == IF an.clutter_analysis.clutter_level = "high"
                   /\ ~Contains(Lower(suggestion_data.suggestion), "remove clutter")
                THEN suggestion_data.suggestion \o ", prioritize decluttering"
                ELSE suggestion_data.suggestion
    IN  [suggestion_data EXCEPT !.priority = priority, !.suggestion = text]

\* faulty variant of _customize_suggestion_argument_after: the changes are
\* made to the dict that was passed in
_customize_suggestion_argument_after_no_copy(suggestion_data, an) ==
    _customize_suggestion(suggestion_data, an)

\* the dict passed to _customize_suggestion, once the call is over: the
\* changes went to suggestion_data.copy(), whose values are strings
_customize_suggestion_argument_after(suggestion_data, an) ==
    suggestion_data

\* faulty variant of CustomizeAll: a candidate is customized a second time
CustomizeAll_twice(suggestions_data, an) ==
    [i \in 1..Len(suggestions_data) |->
        _customize_suggestion(_customize_suggestion(suggestions_data[i], an), an)]

\* the loop of get_enhancement_suggestions over the list get_suggestions returned
CustomizeAll(suggestions_data, an) ==
    [i \in 1..Len(suggestions_data) |->
        _customize_suggestion(suggestions_data[i], an)]

\* faulty variant of get_enhancement_suggestions: the lookup arguments are
\* passed in the wrong order
get_enhancement_suggestions_swapped_arguments(db, an) ==
    LET room_type == Replace(an.room_type, "_", " ")
        style     == an.style
    IN  CustomizeAll(get_suggestions(db, style, room_type), an)

\* RealEstateAIService.get_enhancement_suggestions
get_enhancement_suggestions(db, an) ==
    LET room_type == Replace(an.room_type, "_", " ")
        style     == an.style
    IN  CustomizeAll(get_suggestions(db, room_type, style), an)

\* EnhancementDatabase.suggestions after _customize_suggestion was applied
\* to the records at some positions of the list get_suggestions returned:
\* that list is the database's own whenever the room has a table, and a
\* new one otherwise
suggestions_after_customizing(db, an, positions) ==
    LET room_key  == Lower(Replace(Replace(an.room_type, "_", " "), " ", "_"))
        style_key == Lower(an.style)
    IN  IF room_key \notin DOMAIN db THEN db
        ELSE LET key == IF style_key \in DOMAIN db[room_key] THEN style_key ELSE "modern"
             IN  IF key \notin DOMAIN db[room_key] THEN db
                 ELSE [db EXCEPT ![room_key][key] =
                         [i \in 1..Len(@) |->
                            IF i \in positions
                            THEN _customize_suggestion_argument_after(@[i], an)
                            ELSE @[i]]]

\* faulty variant of SelectPrimary: the first candidate, whatever its priority
SelectPrimary_first_candidate(suggestions) ==
    IF Len(suggestions) > 0 THEN suggestions[1].suggestion
    ELSE "Add modern furniture pieces, remove clutter and personal items"

\* the selection of get_primary_suggestion among the customized suggestions
SelectPrimary(suggestions) ==
    LET high_priority   == SelectSeq(suggestions, LAMBDA s : s.priority = "high")
        medium_priority == SelectSeq(suggestions, LAMBDA s : s.priority = "medium")
    IN  IF Len(high_priority) > 0 THEN high_priority[1].suggestion
        ELSE IF Len(medium_priority) > 0 THEN medium_priority[1].suggestion
        ELSE IF Len(suggestions) > 0 THEN suggestions[1].suggestion
        ELSE "Add modern furniture pieces, remove clutter and personal items"

\* RealEstateAIService.get_primary_suggestion
get_primary_suggestion(db, an) ==
    SelectPrimary(get_enhancement_suggestions(db, an))

\* faulty variant of analyze: the label's spaces are kept
analyze_spaces_kept(cap, clfRoom, clfStyle) ==
    LET room  == _identify_room_type(cap, clfRoom)
        style == _identify_style(cap, clfStyle)
    IN  [ caption           |-> cap,
          room_type         |-> room.label,
          style             |-> style.label,
          confidence_scores |-> [room_type |-> room.confidence, style |-> style.confidence],
          editable_areas    |-> _detect_editable_areas(cap),
          clutter_analysis  |-> _analyze_clutter_and_spaces(cap) ]

\* the result analyze_image builds from a caption and the two CLIP outcomes
analyze(cap, clfRoom, clfStyle) ==
    LET room  == _identify_room_type(cap, clfRoom)
        style == _identify_style(cap, clfStyle)
    IN  [ caption           |-> cap,
          room_type         |-> Replace(room.label, " ", "_"),
          style             |-> style.label,
          confidence_scores |-> [room_type |-> room.confidence, style |-> style.confidence],
          editable_areas    |-> _detect_editable_areas(cap),
          clutter_analysis  |-> _analyze_clutter_and_spaces(cap) ]

-----------------------------------------------------------------------------
(* ModelManager                                                            *)

\* the handles in the order load_models assigns them
HandleNames == << "blip_processor", "blip_model", "clip_processor", "clip_model" >>

\* ModelManager.__init__: every handle is None
NoHandles == [h \in { HandleNames[i] : i \in 1..Len(HandleNames) } |-> 0]

\* the handles after the n-th load_models call ran to its end
LoadedBy(n) == [h \in { HandleNames[i] : i \in 1..Len(HandleNames) } |-> n]

\* ModelManager.load_models, as the n-th call; fail_at = 0 when every
\* from_pretrained succeeds, else the position in HandleNames of the one
\* that raises: the handles before it are already assigned
load_models(loaded, handles, n, fail_at) ==
    [ models_loaded |-> IF fail_at = 0 THEN TRUE ELSE loaded,
      model_handles |-> [h \in DOMAIN handles |->
                            IF \E i \in 1..Len(HandleNames) :
                                  /\ HandleNames[i] = h
                                  /\ (fail_at = 0 \/ i < fail_at)
                            THEN n ELSE handles[h]],
      load_calls    |-> n,
      error         |-> IF fail_at = 0 THEN "none" ELSE "ModelLoadingError" ]

\* faulty variant of ensure_models_loaded: the flag is raised before the
\* weights are fetched
ensure_models_loaded_flag_first(loaded, handles, calls, fail_at) ==
    IF ~loaded
    THEN [ load_models(loaded, handles, calls + 1, fail_at) EXCEPT !.models_loaded = TRUE ]
    ELSE [ models_loaded |-> loaded, model_handles |-> handles,
           load_calls |-> calls, error |-> "none" ]

\* faulty variant of ensure_models_loaded: the flag is not consulted
ensure_models_loaded_unguarded(loaded, handles, calls, fail_at) ==
    load_models(loaded, handles, calls + 1, fail_at)

\* ModelManager.ensure_models_loaded
ensure_models_loaded(loaded, handles, calls, fail_at) ==
    IF ~loaded
    THEN load_models(loaded, handles, calls + 1, fail_at)
    ELSE [ models_loaded |-> loaded, model_handles |-> handles,
           load_calls |-> calls, error |-> "none" ]

\* the members of the RoomType and StyleType enumerations
RoomType ==
    { "living_room", "bedroom", "kitchen", "bathroom", "dining_room", "balcony",
      "garden", "pool_area", "bungalow", "office", "basement" }

StyleType ==
    { "modern", "contemporary", "traditional", "rustic", "industrial",
      "minimalist", "vintage", "scandinavian", "mediterranean", "colonial" }

\* faulty variant of _generate_caption: a failed generation is tried again
_generate_caption_retry_once(blip) ==
    IF blip[1].ok THEN [caption |-> blip[1].text, invocations |-> 1]
    ELSE IF blip[2].ok THEN [caption |-> blip[2].text, invocations |-> 2]
    ELSE [caption |-> FallbackCaption, invocations |-> 2]

\* RealEstateAIService._generate_caption; blip[i] is what the i-th
\* generation of the captioning model would produce: a text or an exception
_generate_caption(blip) ==
    IF blip[1].ok
    THEN [caption |-> blip[1].text, invocations |-> 1]
    ELSE [caption |-> FallbackCaption, invocations |-> 1]

\* faulty variant of analyze_image: an image that cannot be opened is
\* analysed as far as possible and returned
analyze_image_partial_on_bad_file(path, blip, clfRoom, clfStyle) ==
    IF path = "missing"
    THEN [error |-> "ImageProcessingError"]
    ELSE LET cap    == IF path = "image" THEN _generate_caption(blip)
                       ELSE [caption |-> FallbackCaption, invocations |-> 0]
             result == analyze(cap.caption, clfRoom, clfStyle)
         IN  [error |-> "none", result |-> result, blip_calls |-> cap.invocations]

\* RealEstateAIService.analyze_image once the models are loaded: the path
\* check, Image.open, the five steps, the enum construction, and the except
\* clause that turns every exception into ImageProcessingError
analyze_image(path, blip, clfRoom, clfStyle) ==
    IF path = "missing"                 \* FileProcessingError, caught below
    THEN [error |-> "ImageProcessingError"]
    ELSE IF path # "image"              \* Image.open(...).convert raised
    THEN [error |-> "ImageProcessingError"]
    ELSE LET cap    == _generate_caption(blip)
             result == analyze(cap.caption, clfRoom, clfStyle)
         IN  IF result.room_type \notin RoomType \/ result.style \notin StyleType
             THEN [error |-> "ImageProcessingError"]
             ELSE [error |-> "none", result |-> result, blip_calls |-> cap.invocations]

-----------------------------------------------------------------------------
(* Inputs                                                                  *)

\* words per generated caption
MaxWords == 2

\* records per injected knowledge-base list
MaxCands == 2

\* words that exercise the keyword tables: room names with and without an
\* inner space, upper case, clutter, empty-space, style synonyms, an element
Vocabulary ==
    { "living", "room", "bed", "Kitchen", "Messy", "dishes", "pile",
      "empty", "sleek", "wooden" }

\* captions of the documented scenarios and the captioning fallback
ExampleCaptions ==
    { "a modern living room with a sofa",
      "a cluttered modern kitchen with dishes on counter and a sink",
      "an empty minimalist bedroom",
      "a messy bedroom with a pile of clothes",
      "stuff on top of stuff on top of stuff",
      "a countertop with a lamp",
      FallbackCaption }

Captions ==
    ExampleCaptions
    \cup { Join(ws) : ws \in UNION { [1..n -> Vocabulary] : n \in 0..MaxWords } }

\* arg-max probabilities at and just above each threshold
RoomProbabilities  == { RoomThreshold, RoomThreshold + 1 }
StyleProbabilities == { StyleThreshold, StyleThreshold + 1 }

RoomClfOutputs ==
    { Raised } \cup [ok : {TRUE}, idx : 1..Len(room_types), prob : RoomProbabilities]

StyleClfOutputs ==
    { Raised } \cup [ok : {TRUE}, idx : 1..Len(style_types), prob : StyleProbabilities]

\* arguments of a direct knowledge-base lookup: every label of the service,
\* other spellings of them, and a room no table has
RoomTypeArgs ==
    { room_types[i] : i \in 1..Len(room_types) }
    \cup { "Living Room", "living_room", "KITCHEN", "garage" }

StyleArgs ==
    { style_types[i] : i \in 1..Len(style_types) } \cup { "Modern", "Traditional" }

\* knowledge-base records an injected database may hold
RankTexts == { "Add indoor plants", "Remove worn rug", "Add shelving, Remove Clutter" }

InjectedRecords ==
    [ suggestion : RankTexts, priority : { "low", "medium", "high" },
      category : { "decor" }, estimated_impact : { "medium" } ]

\* databases handed to RealEstateAIService.__init__: the shipped one, and
\* ones whose living_room/modern list is any list of up to MaxCands records
InjectedDbs ==
    { Suggestions }
    \cup { [living_room |-> [modern |-> l]] :
             l \in UNION { [1..n -> InjectedRecords] : n \in 0..MaxCands } }

\* analyses handed to the ranker: no, medium and high clutter, for a room
\* decided by the caption, by the classifier and by the failure default
RankCaptions ==
    { FallbackCaption,
      "a cluttered modern kitchen with dishes on counter and a sink",
      "a messy bedroom with a pile of clothes" }

RankRoomClf  == { Raised, [ok |-> TRUE, idx |-> 3, prob |-> 31] }
RankStyleClf == { Raised, [ok |-> TRUE, idx |-> 3, prob |-> 26] }

RankAnalyses ==
    { analyze(c, r, s) : c \in RankCaptions, r \in RankRoomClf, s \in RankStyleClf }

\* what image_path can name: a decodable image, no file, a file that cannot
\* be read, a file that is not an image
ImagePaths == { "image", "missing", "unreadable", "undecodable" }

\* captions the captioning model can produce for the analysed images
ServiceCaptions ==
    ExampleCaptions
        \cup { "a messy cluttered modern kitchen with dishes", "a rustic kitchen" }

\* outcomes of one generation of the captioning model
BlipOutcomes == { Raised } \cup [ok : {TRUE}, text : ServiceCaptions]

\* outcomes of a first generation and of one more, were it made: the model
\* that failed once would answer the second time
BlipRuns ==
    { << first, [ok |-> TRUE, text |-> "a modern living room with a sofa"] >> :
        first \in BlipOutcomes }

\* what the two CLIP calls of one analysis produce: an exception, each label
\* as a confident arg-max, or "bedroom" / "contemporary" at the threshold
ServiceRoomClf ==
    { Raised, [ok |-> TRUE, idx |-> 2, prob |-> RoomThreshold] }
        \cup [ok : {TRUE}, idx : 1..Len(room_types), prob : {RoomThreshold + 1}]

ServiceStyleClf ==
    { Raised, [ok |-> TRUE, idx |-> 2, prob |-> StyleThreshold] }
        \cup [ok : {TRUE}, idx : 1..Len(style_types), prob : {StyleThreshold + 1}]

\* the analyze_image runs on a decodable image: what the captioning model
\* and the two classifier calls produce, and what analyze_image makes of it
ImageAnalyses ==
    { [ blip |-> blip, clfRoom |-> clfRoom, clfStyle |-> clfStyle,
        out |-> analyze_image("image", blip, clfRoom, clfStyle) ] :
        blip \in BlipRuns, clfRoom \in ServiceRoomClf, clfStyle \in ServiceStyleClf }

\* load_models calls per run
MaxLoads == 2

\* how a load_models call goes: 0 for success, else the handle whose
\* from_pretrained raises
LoadOutcomes == 0..Len(HandleNames)

None == [none |-> TRUE]

\* no helper call is outstanding
NoCall == [fn |-> "none"]

-----------------------------------------------------------------------------
(* Helper-level specification: each helper applied to a drawn caption      *)

InitHelpers ==
    /\ caption \in Captions
    /\ enhancement_db = Suggestions
    /\ analysis = None
    /\ call = NoCall
    /\ models_loaded = TRUE
    /\ model_handles = LoadedBy(1)
    /\ load_calls = 1
    /\ temp_files = {}
    /\ requests = 0

CallIdentifyRoomType ==
    /\ call = NoCall
    /\ \E clf \in RoomClfOutputs :
          call' = [fn |-> "_identify_room_type", clf |-> clf,
                   out |-> _identify_room_type(caption, clf)]
    /\ UNCHANGED << caption, enhancement_db, analysis, manager_vars, file_vars >>

CallIdentifyStyle ==
    /\ call = NoCall
    /\ \E clf \in StyleClfOutputs :
          call' = [fn |-> "_identify_style", clf |-> clf,
                   out |-> _identify_style(caption, clf)]
    /\ UNCHANGED << caption, enhancement_db, analysis, manager_vars, file_vars >>

CallDetectEditableAreas ==
    /\ call = NoCall
    /\ call' = [fn |-> "_detect_editable_areas",
                out |-> _detect_editable_areas(caption)]
    /\ UNCHANGED << caption, enhancement_db, analysis, manager_vars, file_vars >>

CallAnalyzeClutterAndSpaces ==
    /\ call = NoCall
    /\ call' = [fn |-> "_analyze_clutter_and_spaces",
                out |-> _analyze_clutter_and_spaces(caption)]
    /\ UNCHANGED << caption, enhancement_db, analysis, manager_vars, file_vars >>

\* the caller takes the returned value; the next call can be made
Return ==
    /\ call # NoCall
    /\ call' = NoCall
    /\ UNCHANGED << caption, enhancement_db, analysis, manager_vars, file_vars >>

NextHelpers ==
    \/ CallIdentifyRoomType
    \/ CallIdentifyStyle
    \/ CallDetectEditableAreas
    \/ CallAnalyzeClutterAndSpaces
    \/ Return

SpecHelpers == InitHelpers /\ [][NextHelpers]_vars

-----------------------------------------------------------------------------
(* Knowledge-base specification: direct lookups in the shipped database    *)

InitLookup ==
    /\ caption = FallbackCaption
    /\ enhancement_db = Suggestions
    /\ analysis = None
    /\ call = NoCall
    /\ models_loaded = FALSE
    /\ model_handles = NoHandles
    /\ load_calls = 0
    /\ temp_files = {}
    /\ requests = 0

CallGetSuggestions ==
    /\ call = NoCall
    /\ \E room_type \in RoomTypeArgs, style \in StyleArgs :
          call' = [fn |-> "get_suggestions", room_type |-> room_type, style |-> style,
                   out |-> get_suggestions(enhancement_db, room_type, style)]
    /\ UNCHANGED << caption, enhancement_db, analysis, manager_vars, file_vars >>

NextLookup ==
    \/ CallGetSuggestions
    \/ Return

SpecLookup == InitLookup /\ [][NextLookup]_vars

-----------------------------------------------------------------------------
(* Ranker specification: the ranker applied to a held analysis             *)

InitRanker ==
    /\ analysis \in RankAnalyses
    /\ caption = analysis.caption
    /\ enhancement_db \in InjectedDbs
    /\ call = NoCall
    /\ models_loaded = TRUE
    /\ model_handles = LoadedBy(1)
    /\ load_calls = 1
    /\ temp_files = {}
    /\ requests = 0

\* the list get_enhancement_suggestions obtains from the database
SuggestionsData ==
    get_suggestions(enhancement_db, Replace(analysis.room_type, "_", " "), analysis.style)

CallCustomizeSuggestion ==
    /\ call = NoCall
    /\ analysis # None
    /\ \E i \in 1..Len(SuggestionsData) :
          /\ call' = [fn |-> "_customize_suggestion", suggestion_data |-> SuggestionsData[i],
                      out |-> _customize_suggestion(SuggestionsData[i], analysis)]
          /\ enhancement_db' = suggestions_after_customizing(enhancement_db, analysis, { i })
    /\ UNCHANGED << caption, analysis, manager_vars, file_vars >>

CallGetEnhancementSuggestions ==
    /\ call = NoCall
    /\ analysis # None
    /\ call' = [fn |-> "get_enhancement_suggestions",
                out |-> get_enhancement_suggestions(enhancement_db, analysis)]
    /\ enhancement_db' = suggestions_after_customizing(enhancement_db, analysis,
                                                         1..Len(SuggestionsData))
    /\ UNCHANGED << caption, analysis, manager_vars, file_vars >>

CallGetPrimarySuggestion ==
    /\ call = NoCall
    /\ analysis # None
    /\ call' = [fn |-> "get_primary_suggestion",
                out |-> get_primary_suggestion(enhancement_db, analysis)]
    /\ enhancement_db' = suggestions_after_customizing(enhancement_db, analysis,
                                                         1..Len(SuggestionsData))
    /\ UNCHANGED << caption, analysis, manager_vars, file_vars >>

NextRanker ==
    \/ CallCustomizeSuggestion
    \/ CallGetEnhancementSuggestions
    \/ CallGetPrimarySuggestion
    \/ Return

SpecRanker == InitRanker /\ [][NextRanker]_vars

-----------------------------------------------------------------------------
(* Service specification: analyze_image, then the suggestion calls of      *)
(* process_image on the analysis it returned                               *)

InitService ==
    /\ caption = ""
    /\ enhancement_db = Suggestions
    /\ analysis = None
    /\ call = NoCall
    /\ models_loaded = FALSE
    /\ model_handles = NoHandles
    /\ load_calls = 0
    /\ temp_files = {}
    /\ requests = 0

\* one analyze_image call: ensure_models_loaded outside the try, then the
\* analysis; the caller keeps the result
AnalyzeImage ==
    /\ call = NoCall
    /\ analysis = None
    /\ models_loaded \/ load_calls < MaxLoads
    /\ \E fail_at \in (IF models_loaded THEN { 0 } ELSE LoadOutcomes) :
          LET mm == ensure_models_loaded(models_loaded, model_handles, load_calls, fail_at)
          IN  /\ models_loaded' = mm.models_loaded
              /\ model_handles' = mm.model_handles
              /\ load_calls' = mm.load_calls
              /\ IF mm.error # "none"
                 THEN /\ call' = [fn |-> "analyze_image",
                                  loaded_before |-> models_loaded, fail_at |-> fail_at, error |-> mm.error]
                      /\ UNCHANGED << caption, analysis >>
                 ELSE \/ \E path \in ImagePaths \ { "image" } :
                           /\ call' = [fn |-> "analyze_image",
                                        loaded_before |-> models_loaded, fail_at |-> fail_at, path |-> path,
                                        error |-> analyze_image(path, << >>, Raised, Raised).error]
                           /\ UNCHANGED << caption, analysis >>
                      \/ \E run \in ImageAnalyses :
                           /\ call' = [fn |-> "analyze_image",
                                        loaded_before |-> models_loaded, fail_at |-> fail_at,
                                        path |-> "image", blip |-> run.blip,
                                        clfRoom |-> run.clfRoom, clfStyle |-> run.clfStyle,
                                        error |-> run.out.error, out |-> run.out]
                           /\ analysis' = IF run.out.error = "none"
                                           THEN run.out.result ELSE None
                           /\ caption' = IF run.out.error = "none"
                                          THEN run.out.result.caption ELSE caption
    /\ UNCHANGED << enhancement_db, file_vars >>

\* process_image has built its response: the analysis and its caption go
\* out of scope
Respond ==
    /\ call = NoCall
    /\ analysis # None
    /\ analysis' = None
    /\ caption' = ""
    /\ UNCHANGED << enhancement_db, call, manager_vars, file_vars >>

NextService ==
    \/ AnalyzeImage
    \/ CallGetEnhancementSuggestions
    \/ CallGetPrimarySuggestion
    \/ Respond
    \/ Return

SpecService == InitService /\ [][NextService]_vars

-----------------------------------------------------------------------------
(* Properties of the Room/Style Identifier (SpecHelpers)                   *)

\* the room-type names that occur in a caption, both lowercased and stripped of spaces
RoomNamesIn(cap) ==
    LET text == Replace(Lower(cap), " ", "")
    IN  { room_types[i] : i \in { j \in 1..Len(room_types) :
            Contains(text, Replace(room_types[j], " ", "")) } }

\* the styles whose synonym table has a synonym that occurs in a caption
StylesNamedIn(cap) ==
    LET text == Lower(cap)
    IN  { style_keywords[i].style : i \in { j \in 1..Len(style_keywords) :
            \E k \in 1..Len(style_keywords[j].keywords) :
                Contains(text, style_keywords[j].keywords[k]) } }

\* C2: whenever the caption names a room type and the classifier produced an
\* output, _identify_room_type returns a room type named in the caption with
\* confidence 0.9; "a modern living room with a sofa" gives "living room".
C2_KeywordMatchWins ==
    (call.fn = "_identify_room_type" /\ call.clf.ok) =>
        /\ RoomNamesIn(caption) # {} =>
              /\ call.out.label \in RoomNamesIn(caption)
              /\ call.out.confidence = 90
        /\ caption = "a modern living room with a sofa" =>
              call.out.label = "living room"

\* the classifier is sure of "kitchen", the caption says living room
C2_Witness ==
    /\ call.fn = "_identify_room_type"
    /\ call.clf.ok /\ room_types[call.clf.idx] = "kitchen" /\ call.clf.prob = 31
    /\ caption = "a modern living room with a sofa"
    /\ call.out = [label |-> "living room", confidence |-> 90]

\* C9: when the caption names no room type, _identify_room_type returns the
\* classifier's arg-max room only if its probability is above 0.3, and
\* "living room" otherwise, also at exactly 0.3.
C9_RoomThreshold ==
    (call.fn = "_identify_room_type" /\ RoomNamesIn(caption) = {}) =>
        call.out.label = IF call.clf.ok /\ call.clf.prob > 30
                         THEN room_types[call.clf.idx] ELSE "living room"

\* the arg-max is "kitchen" at exactly 0.3 and the default is returned
C9_Witness ==
    /\ call.fn = "_identify_room_type"
    /\ RoomNamesIn(caption) = {}
    /\ call.clf.ok /\ room_types[call.clf.idx] = "kitchen" /\ call.clf.prob = 30
    /\ call.out.label = "living room"

\* C10: whenever the caption holds a synonym of some style's table and the
\* classifier produced an output, _identify_style returns a style whose table
\* has a synonym in the caption, with confidence 0.9.
C10_StyleSynonymWins ==
    (call.fn = "_identify_style" /\ call.clf.ok /\ StylesNamedIn(caption) # {}) =>
        /\ call.out.label \in StylesNamedIn(caption)
        /\ call.out.confidence = 90

\* "wooden" is no style name; the classifier is sure of "colonial"
C10_Witness ==
    /\ call.fn = "_identify_style"
    /\ call.clf.ok /\ style_types[call.clf.idx] = "colonial" /\ call.clf.prob = 26
    /\ caption = "wooden bed"
    /\ call.out = [label |-> "rustic", confidence |-> 90]

\* C11: when the caption holds no style synonym, _identify_style returns
\* the classifier's arg-max style only if its probability is above 0.25,
\* and "modern" otherwise.
C11_StyleThreshold ==
    (call.fn = "_identify_style" /\ StylesNamedIn(caption) = {}) =>
        call.out.label = IF call.clf.ok /\ call.clf.prob > 25
                         THEN style_types[call.clf.idx] ELSE "modern"

\* the arg-max is "colonial" at exactly 0.25 and the default is returned
C11_Witness ==
    /\ call.fn = "_identify_style"
    /\ StylesNamedIn(caption) = {}
    /\ call.clf.ok /\ style_types[call.clf.idx] = "colonial" /\ call.clf.prob = 25
    /\ call.out.label = "modern"

-----------------------------------------------------------------------------
(* Properties of the Clutter & Space Analyzer (SpecHelpers)                *)

\* the clutter keywords, respectively empty-space keywords, in a caption
ClutterWordsIn(cap) ==
    LET text == Lower(cap)
    IN  { clutter_keywords[i] : i \in { j \in 1..Len(clutter_keywords) :
            Contains(text, clutter_keywords[j]) } }

EmptyWordsIn(cap) ==
    LET text == Lower(cap)
    IN  { empty_keywords[i] : i \in { j \in 1..Len(empty_keywords) :
            Contains(text, empty_keywords[j]) } }

\* the number of places of a text where a word starts
Occurrences(text, word) ==
    Cardinality({ i \in 1..(Len(text) - Len(word) + 1) :
                    SubSeq(text, i, i + Len(word) - 1) = word })

\* C4: has_clutter is true exactly when the caption holds a clutter keyword;
\* with has_clutter the level is medium or high, without it the level is low.
C4_ClutterFlagAndLevel ==
    call.fn = "_analyze_clutter_and_spaces" =>
        /\ call.out.has_clutter <=> (ClutterWordsIn(caption) # {})
        /\ call.out.has_clutter => call.out.clutter_level \in { "medium", "high" }
        /\ ~call.out.has_clutter => call.out.clutter_level = "low"

\* one keyword, written in upper case
C4_Witness ==
    /\ call.fn = "_analyze_clutter_and_spaces"
    /\ caption = "Messy room"
    /\ call.out.has_clutter
    /\ call.out.clutter_level = "medium"

\* C5: space_utilization is underutilized whenever an empty-space keyword is
\* present, overcrowded exactly when only clutter keywords are, well_utilized
\* exactly when neither kind is, and then clutter_level is low.
C5_SpaceUtilization ==
    call.fn = "_analyze_clutter_and_spaces" =>
        LET clutter == ClutterWordsIn(caption) # {}
            empty   == EmptyWordsIn(caption) # {}
        IN  /\ empty => call.out.space_utilization = "underutilized"
            /\ call.out.space_utilization = "overcrowded" <=> (clutter /\ ~empty)
            /\ call.out.space_utilization = "well_utilized" <=> (~clutter /\ ~empty)
            /\ (~clutter /\ ~empty) => call.out.clutter_level = "low"

\* both kinds of keyword: the empty-space signal wins
C5_Witness ==
    /\ call.fn = "_analyze_clutter_and_spaces"
    /\ ClutterWordsIn(caption) # {}
    /\ EmptyWordsIn(caption) # {}
    /\ call.out.has_clutter
    /\ call.out.space_utilization = "underutilized"

\* C6: clutter_level is high for three or more distinct clutter keywords in
\* the caption, medium for one or two, low for none; a repeated keyword
\* counts once.
C6_ClutterLevelByDistinctKeywords ==
    call.fn = "_analyze_clutter_and_spaces" =>
        LET n == Cardinality(ClutterWordsIn(caption))
        IN  call.out.clutter_level = IF n >= 3 THEN "high"
                                     ELSE IF n >= 1 THEN "medium"
                                     ELSE "low"

\* one keyword three times over
C6_Witness ==
    /\ call.fn = "_analyze_clutter_and_spaces"
    /\ Occurrences(Lower(caption), "stuff") = 3
    /\ Cardinality(ClutterWordsIn(caption)) = 1
    /\ call.out.clutter_level = "medium"

\* C15 as stated: the caption "a cluttered modern kitchen with dishes on
\* counter and a sink" is reported with clutter_level high.
C15_Original ==
    (call.fn = "_analyze_clutter_and_spaces"
     /\ caption = "a cluttered modern kitchen with dishes on counter and a sink") =>
        call.out.clutter_level = "high"

\* C15 amended: that caption holds two distinct clutter keywords,
\* "cluttered" and "dishes", and is reported with clutter_level medium.
C15_KitchenCaptionIsMedium ==
    (call.fn = "_analyze_clutter_and_spaces"
     /\ caption = "a cluttered modern kitchen with dishes on counter and a sink") =>
        /\ ClutterWordsIn(caption) = { "cluttered", "dishes" }
        /\ call.out.clutter_level = "medium"

\* the analyzer has run on that caption
C15_Witness ==
    /\ call.fn = "_analyze_clutter_and_spaces"
    /\ caption = "a cluttered modern kitchen with dishes on counter and a sink"
    /\ call.out.has_clutter
    /\ call.out.clutter_level = "medium"

-----------------------------------------------------------------------------
(* Properties of the Editable-Area Detector (SpecHelpers)                  *)

\* the (category, keyword) positions of the table whose keyword is in a caption
EditableHits(cap) ==
    LET text == Lower(cap)
    IN  { p \in UNION { { << c, k >> : k \in 1..Len(editable_elements[c].elements) } :
                          c \in 1..Len(editable_elements) } :
            Contains(text, editable_elements[p[1]].elements[p[2]]) }

\* enumeration order: by category, then by keyword
EnumeratedBefore(p, q) == p[1] < q[1] \/ (p[1] = q[1] /\ p[2] < q[2])

\* C14: _detect_editable_areas returns exactly one entry per (category,
\* keyword) pair whose keyword is in the lowercased caption, in category-
\* then-keyword order whatever the order in the caption, without duplicates.
C14_EditableAreasEnumerationOrder ==
    call.fn = "_detect_editable_areas" =>
        LET hits == EditableHits(caption)
        IN  /\ Len(call.out) = Cardinality(hits)
            /\ \A p \in hits :
                  call.out[1 + Cardinality({ q \in hits : EnumeratedBefore(q, p) })]
                    = editable_elements[p[1]].category \o ": "
                        \o editable_elements[p[1]].elements[p[2]]

\* the lamp comes last in the caption and first in the result
C14_Witness ==
    /\ call.fn = "_detect_editable_areas"
    /\ caption = "a countertop with a lamp"
    /\ call.out = << "lighting: lamp", "surfaces: counter", "surfaces: countertop" >>

-----------------------------------------------------------------------------
(* Properties of the knowledge base (SpecLookup)                           *)

\* C3: with the key built from room_type (spaces to underscores) and the
\* lowercased style, get_suggestions returns the (room, style) list when
\* present, else the room's "modern" list when the room is present, and the
\* single generic record (category general, priority high) only for a room
\* that is absent.
C3_FallbackChain ==
    call.fn = "get_suggestions" =>
        LET room_key  == Replace(call.room_type, " ", "_")
            style_key == Lower(call.style)
            present   == room_key \in DOMAIN enhancement_db
        IN  /\ (present /\ style_key \in DOMAIN enhancement_db[room_key]) =>
                  call.out = enhancement_db[room_key][style_key]
            /\ (present /\ style_key \notin DOMAIN enhancement_db[room_key]) =>
                  call.out = enhancement_db[room_key]["modern"]
            /\ (Len(call.out) = 1 /\ call.out[1].category = "general") => ~present
            /\ (\A r \in DOMAIN enhancement_db : Lower(room_key) # r) =>
                  /\ Len(call.out) = 1
                  /\ call.out[1].category = "general"
                  /\ call.out[1].priority = "high"

\* the room is present, the style is not: the room's modern list
C3_Witness ==
    /\ call.fn = "get_suggestions"
    /\ call.room_type = "living room" /\ call.style = "industrial"
    /\ "industrial" \notin DOMAIN enhancement_db["living_room"]
    /\ call.out = Kb_living_room_modern

\* C13: for a room the knowledge base lacks, such as "garage",
\* get_suggestions returns exactly one record, of category "general".
C13_UnknownRoomGetsGenericRecord ==
    (call.fn = "get_suggestions"
     /\ Lower(Replace(call.room_type, " ", "_")) \notin DOMAIN enhancement_db) =>
        /\ Len(call.out) = 1
        /\ call.out[1].category = "general"

\* the lookup of ("garage", "modern")
C13_Witness ==
    /\ call.fn = "get_suggestions"
    /\ call.room_type = "garage" /\ call.style = "modern"
    /\ Len(call.out) = 1
    /\ call.out[1].category = "general"

\* C12 as stated: the lookup of ("office", "rustic") finds the room and
\* returns the room's "modern" list, not the generic default.
C12_Original ==
    (call.fn = "get_suggestions"
     /\ call.room_type = "office" /\ call.style = "rustic") =>
        /\ "office" \in DOMAIN enhancement_db
        /\ call.out = enhancement_db["office"]["modern"]
        /\ call.out # DefaultSuggestions

\* C12 amended: the knowledge base has no "office" table, so the lookup of
\* ("office", "rustic") returns the generic default; a room that has a
\* table but no "rustic" list, such as "kitchen", gets its "modern" list.
C12_OfficeRusticGetsDefault ==
    call.fn = "get_suggestions" =>
        /\ (call.room_type = "office" /\ call.style = "rustic") =>
              /\ "office" \notin DOMAIN enhancement_db
              /\ call.out = DefaultSuggestions
        /\ (call.room_type = "kitchen" /\ call.style = "rustic") =>
              /\ "rustic" \notin DOMAIN enhancement_db["kitchen"]
              /\ call.out = enhancement_db["kitchen"]["modern"]
              /\ call.out # DefaultSuggestions

\* the lookup of ("office", "rustic") has returned
C12_Witness ==
    /\ call.fn = "get_suggestions"
    /\ call.room_type = "office" /\ call.style = "rustic"
    /\ call.out = DefaultSuggestions

-----------------------------------------------------------------------------
(* Properties of the Suggestion Ranker (SpecRanker)                        *)

\* the candidates of the held analysis after customization
Customized == CustomizeAll(SuggestionsData, analysis)

\* the first position of a list whose record has priority p, 0 when there is none
FirstWithPriority(list, p) ==
    IF \E i \in 1..Len(list) : list[i].priority = p
    THEN Min({ i \in 1..Len(list) : list[i].priority = p })
    ELSE 0

\* C1: get_primary_suggestion returns the text of the first customized
\* candidate of priority high; with none, of the first of priority medium;
\* with none, of the first candidate; and the fixed string only for an empty
\* candidate list.
C1_PrimarySelection ==
    call.fn = "get_primary_suggestion" =>
        LET customized == Customized
            high   == FirstWithPriority(customized, "high")
            medium == FirstWithPriority(customized, "medium")
        IN  /\ high > 0 => call.out = customized[high].suggestion
            /\ (high = 0 /\ medium > 0) => call.out = customized[medium].suggestion
            /\ (high = 0 /\ medium = 0 /\ Len(customized) > 0) =>
                  call.out = customized[1].suggestion
            /\ Len(customized) = 0 =>
                  call.out = "Add modern furniture pieces, remove clutter and personal items"

\* the second candidate is high only after customization and is selected
\* ahead of the first
C1_Witness ==
    /\ call.fn = "get_primary_suggestion"
    /\ Len(Customized) = 2
    /\ Customized[1].priority = "low"
    /\ SuggestionsData[2].priority = "medium"
    /\ Customized[2].priority = "high"
    /\ call.out = Customized[2].suggestion

\* one level up: low to medium, medium to high, high stays
OneLevelUp(p) == IF p = "low" THEN "medium" ELSE "high"

\* C7: _customize_suggestion raises the priority by one level if and only
\* if the analysis has has_clutter and the text contains "remove" in any
\* case; otherwise the priority is unchanged.
C7_PriorityBump ==
    call.fn = "_customize_suggestion" =>
        LET bump == /\ analysis.clutter_analysis.has_clutter
                    /\ Contains(Lower(call.suggestion_data.suggestion), "remove")
        IN  call.out.priority = IF bump THEN OneLevelUp(call.suggestion_data.priority)
                                ELSE call.suggestion_data.priority

\* "Remove" in upper case, a low record becomes medium
C7_Witness ==
    /\ call.fn = "_customize_suggestion"
    /\ analysis.clutter_analysis.has_clutter
    /\ call.suggestion_data.suggestion = "Remove worn rug"
    /\ call.suggestion_data.priority = "low"
    /\ call.out.priority = "medium"

\* C8: _customize_suggestion appends ", prioritize decluttering" if and
\* only if clutter_level is high and the text does not contain "remove
\* clutter" in any case; otherwise the text is unchanged.
C8_DeclutterSuffix ==
    call.fn = "_customize_suggestion" =>
        LET append == /\ analysis.clutter_analysis.clutter_level = "high"
                      /\ ~Contains(Lower(call.suggestion_data.suggestion), "remove clutter")
        IN  call.out.suggestion =
                IF append
                THEN call.suggestion_data.suggestion \o ", prioritize decluttering"
                ELSE call.suggestion_data.suggestion

\* high clutter and a text without "remove clutter"
C8_Witness ==
    /\ call.fn = "_customize_suggestion"
    /\ analysis.clutter_analysis.clutter_level = "high"
    /\ call.suggestion_data.suggestion = "Remove worn rug"
    /\ call.out.suggestion = "Remove worn rug, prioritize decluttering"

-----------------------------------------------------------------------------
(* Properties of the service (SpecService)                                 *)

\* an analyze_image call that got as far as opening a decodable image
AnalysedImage ==
    /\ call.fn = "analyze_image"
    /\ call.error # "ModelLoadingError"
    /\ call.path = "image"

\* a get_primary_suggestion call on a kitchen / modern analysis
PrimaryOfModernKitchen ==
    /\ call.fn = "get_primary_suggestion"
    /\ analysis.room_type = "kitchen"
    /\ analysis.style = "modern"

\* C16 as stated: for kitchen / modern the primary suggestion is the
\* customized text of a "high" record of the kitchen/modern list, and it
\* contains "prioritize decluttering" whenever clutter_level is high.
C16_Original ==
    PrimaryOfModernKitchen =>
        /\ \E i \in 1..Len(Kb_kitchen_modern) :
              /\ Kb_kitchen_modern[i].priority = "high"
              /\ call.out = _customize_suggestion(Kb_kitchen_modern[i], analysis).suggestion
        /\ analysis.clutter_analysis.clutter_level = "high" =>
              Contains(Lower(call.out), "prioritize decluttering")

\* C16 amended: for kitchen / modern the primary suggestion is the first
\* record of the kitchen/modern list, of priority "high"; its text already
\* contains "remove clutter", so it is returned unchanged and without
\* "prioritize decluttering" at every clutter_level, high included.
C16_PrimaryOfModernKitchenUnchanged ==
    PrimaryOfModernKitchen =>
        /\ Kb_kitchen_modern[1].priority = "high"
        /\ Contains(Lower(Kb_kitchen_modern[1].suggestion), "remove clutter")
        /\ call.out = Kb_kitchen_modern[1].suggestion
        /\ ~Contains(Lower(call.out), "prioritize decluttering")

\* the primary suggestion of a modern kitchen with high clutter
C16_Witness ==
    /\ PrimaryOfModernKitchen
    /\ analysis.clutter_analysis.clutter_level = "high"
    /\ call.out = "Enhance countertops with quartz surfaces, remove clutter including dishes"

\* C17: for the caption "an empty minimalist bedroom" identified as a
\* bedroom, the candidates that get_enhancement_suggestions customizes are
\* the bedroom/modern list, and space_utilization is underutilized.
C17_EmptyMinimalistBedroom ==
    (call.fn = "get_enhancement_suggestions"
     /\ analysis.caption = "an empty minimalist bedroom"
     /\ analysis.room_type = "bedroom") =>
        /\ Len(call.out) = Len(Kb_bedroom_modern)
        /\ \A i \in 1..Len(call.out) :
              /\ call.out[i].category = Kb_bedroom_modern[i].category
              /\ call.out[i].estimated_impact = Kb_bedroom_modern[i].estimated_impact
              /\ call.out[i].suggestion = Kb_bedroom_modern[i].suggestion
        /\ analysis.clutter_analysis.space_utilization = "underutilized"

\* the suggestions of that bedroom, whose style the synonym "minimalist"
\* made "modern"
C17_Witness ==
    /\ call.fn = "get_enhancement_suggestions"
    /\ analysis.caption = "an empty minimalist bedroom"
    /\ analysis.room_type = "bedroom"
    /\ analysis.style = "modern"
    /\ call.out = Kb_bedroom_modern
    /\ analysis.clutter_analysis.space_utilization = "underutilized"

\* C18: when the classifier call of _identify_room_type or _identify_style
\* raises, the label is the default ("living room", "modern") at confidence
\* 0.5 whatever the caption says, and analyze_image returns a result.
C18_ClassifierFailureAbsorbed ==
    AnalysedImage =>
        /\ ~call.clfRoom.ok =>
              /\ call.error = "none"
              /\ analysis = call.out.result
              /\ analysis.room_type = "living_room"
              /\ analysis.confidence_scores.room_type = FailureConfidence
        /\ ~call.clfStyle.ok =>
              /\ call.error = "none"
              /\ analysis = call.out.result
              /\ analysis.style = "modern"
              /\ analysis.confidence_scores.style = FailureConfidence

\* both classifier calls raised on a caption that names a kitchen and a
\* rustic style
C18_Witness ==
    /\ AnalysedImage
    /\ ~call.clfRoom.ok /\ ~call.clfStyle.ok
    /\ analysis.caption = "a rustic kitchen"
    /\ analysis.room_type = "living_room" /\ analysis.style = "modern"
    /\ analysis.confidence_scores = [room_type |-> 50, style |-> 50]

\* C19: when the captioning model fails, the caption is "A room interior",
\* the model has been invoked once, and analyze_image returns the result
\* whose room, style, editable areas and clutter analysis come from that
\* fallback caption.
C19_CaptionFallback ==
    (AnalysedImage /\ ~call.blip[1].ok) =>
        /\ call.error = "none"
        /\ call.out.blip_calls = 1
        /\ analysis.caption = "A room interior"
        /\ analysis.room_type =
              Replace(_identify_room_type("A room interior", call.clfRoom).label, " ", "_")
        /\ analysis.style = _identify_style("A room interior", call.clfStyle).label
        /\ analysis.editable_areas = _detect_editable_areas("A room interior")
        /\ analysis.clutter_analysis = _analyze_clutter_and_spaces("A room interior")

\* the captioning model failed and the classifier's kitchen was kept
C19_Witness ==
    /\ AnalysedImage
    /\ ~call.blip[1].ok
    /\ call.out.blip_calls = 1
    /\ analysis.caption = "A room interior"
    /\ analysis.room_type = "kitchen"
    /\ analysis.editable_areas = << >>
    /\ analysis.clutter_analysis.clutter_level = "low"

\* the fields of an ImageAnalysisResult are all set
Complete(result) ==
    /\ DOMAIN result = { "caption", "room_type", "style", "confidence_scores",
                         "editable_areas", "clutter_analysis" }
    /\ Len(result.caption) > 0
    /\ result.room_type \in RoomType
    /\ result.style \in StyleType
    /\ DOMAIN result.confidence_scores = { "room_type", "style" }
    /\ result.confidence_scores.room_type \in 0..100
    /\ result.confidence_scores.style \in 0..100
    /\ DOMAIN result.editable_areas = 1..Len(result.editable_areas)
    /\ DOMAIN result.clutter_analysis = { "has_clutter", "has_empty_spaces",
                                          "clutter_level", "space_utilization" }

\* C20: with the models loaded, analyze_image on a missing, unreadable or
\* undecodable path fails with ImageProcessingError and hands no result to
\* the caller; whenever it returns, the result is complete.
C20_BadPathFailsResultComplete ==
    (call.fn = "analyze_image" /\ call.error # "ModelLoadingError") =>
        /\ models_loaded
        /\ call.path # "image" =>
              /\ call.error = "ImageProcessingError"
              /\ "out" \notin DOMAIN call
              /\ analysis = None
        /\ call.error = "none" =>
              /\ analysis = call.out.result
              /\ Complete(analysis)
        /\ call.error # "none" => analysis = None

\* an undecodable file was refused
C20_Witness ==
    /\ call.fn = "analyze_image"
    /\ models_loaded
    /\ call.error = "ImageProcessingError"
    /\ call.path = "undecodable"
    /\ analysis = None

-----------------------------------------------------------------------------
(* Properties of the ModelManager (SpecService).  The endpoints are        *)
(* coroutines that call analyze_image without awaiting inside it, so the   *)
(* calls that share a ModelManager run one after the other, in any order.  *)

\* C21: an analyze_image call made while models_loaded is false calls
\* load_models; when that fails the call ends with ModelLoadingError before
\* the image is touched and models_loaded stays false, so the next call
\* loads again; whatever analyze_image did to an image, it did it with
\* models_loaded true.
C21_LoadFailure ==
    [][ (call' # call /\ call'.fn = "analyze_image") =>
          /\ ~models_loaded => load_calls' = load_calls + 1
          /\ (~models_loaded /\ call'.fail_at # 0) =>
                /\ call'.error = "ModelLoadingError"
                /\ ~models_loaded'
                /\ "path" \notin DOMAIN call' /\ "out" \notin DOMAIN call'
                /\ analysis' = None
          /\ call'.error = "ModelLoadingError" => (~models_loaded /\ call'.fail_at # 0)
          /\ "path" \in DOMAIN call' => models_loaded'
      ]_vars

\* a second call loaded again, and failed again
C21_Witness ==
    /\ call.fn = "analyze_image"
    /\ call.error = "ModelLoadingError"
    /\ load_calls = 2
    /\ ~models_loaded
    /\ analysis = None

-----------------------------------------------------------------------------
(* Properties of the knowledge base under the ranker (SpecService)         *)

\* the list of the knowledge base as constructed that serves the analysis
\* the caller holds
ConstructedData ==
    get_suggestions(Suggestions, Replace(analysis.room_type, "_", " "), analysis.style)

\* C23: whatever get_enhancement_suggestions and get_primary_suggestion
\* calls were made, with whatever analyses, the knowledge base is what it
\* was at construction, so a call returns what it returned the first time
\* for that analysis.
C23_KnowledgeBaseReadOnly ==
    /\ enhancement_db = Suggestions
    /\ call.fn = "get_enhancement_suggestions" =>
          call.out = get_enhancement_suggestions(Suggestions, analysis)
    /\ call.fn = "get_primary_suggestion" =>
          call.out = get_primary_suggestion(Suggestions, analysis)

\* a call whose customization raised a priority and appended the suffix,
\* and left the stored records as they were
C23_Witness ==
    /\ call.fn = "get_enhancement_suggestions"
    /\ analysis.room_type = "kitchen" /\ analysis.style = "modern"
    /\ analysis.clutter_analysis.clutter_level = "high"
    /\ call.out[4].priority = "medium"
    /\ call.out[4].suggestion # Kb_kitchen_modern[4].suggestion
    /\ enhancement_db["kitchen"]["modern"][4] = Kb_kitchen_modern[4]

\* C24: get_enhancement_suggestions returns as many suggestions as the
\* knowledge-base list has records, in its order; the i-th keeps the
\* record's category and estimated_impact, has its priority or the one just
\* above, and its text with at most one ", prioritize decluttering" after
\* it; get_primary_suggestion called for the same analysis returns one of
\* these texts.
C24_CustomizedOnce ==
    /\ call.fn = "get_enhancement_suggestions" =>
          /\ Len(call.out) = Len(ConstructedData)
          /\ \A i \in 1..Len(call.out) :
                /\ call.out[i].category = ConstructedData[i].category
                /\ call.out[i].estimated_impact = ConstructedData[i].estimated_impact
                /\ \/ call.out[i].priority = ConstructedData[i].priority
                   \/ call.out[i].priority = OneLevelUp(ConstructedData[i].priority)
                /\ \/ call.out[i].suggestion = ConstructedData[i].suggestion
                   \/ call.out[i].suggestion =
                        ConstructedData[i].suggestion \o ", prioritize decluttering"
    /\ call.fn = "get_primary_suggestion" =>
          \E i \in 1..Len(ConstructedData) :
             \/ call.out = ConstructedData[i].suggestion
             \/ call.out = ConstructedData[i].suggestion \o ", prioritize decluttering"

\* the suggestions of a cluttered bedroom: a low record with "remove" went
\* up to medium, no further
C24_Witness ==
    /\ call.fn = "get_enhancement_suggestions"
    /\ analysis.clutter_analysis.has_clutter
    /\ \E i \in 1..Len(call.out) :
          /\ ConstructedData[i].priority = "low"
          /\ call.out[i].priority = "medium"

-----------------------------------------------------------------------------
(* Properties of the label sets and of the shipped knowledge base          *)
(* (SpecService)                                                           *)

\* high above medium above low
PriorityRank(p) == IF p = "high" THEN 3 ELSE IF p = "medium" THEN 2 ELSE 1

\* every room of the shipped knowledge base has a "modern" list
EveryRoomHasModern ==
    \A room \in DOMAIN Suggestions : "modern" \in DOMAIN Suggestions[room]

\* the shipped knowledge base answers each of the 11 room types with each of
\* the 10 styles with a list that is not empty
EveryPairHasSuggestions ==
    \A i \in 1..Len(room_types), j \in 1..Len(style_types) :
        Len(get_suggestions(Suggestions, room_types[i], style_types[j])) > 0

\* C26: get_suggestions returns a non-empty list for each of the 11 room
\* types with each of the 10 styles, every room of the knowledge base having
\* a "modern" list; so get_primary_suggestion has candidates, and returns
\* the text of one of the customized candidates, none of the others having
\* a higher priority than that one.
C26_PrimaryAmongCandidates ==
    call.fn = "get_primary_suggestion" =>
        /\ enhancement_db = Suggestions
        /\ EveryRoomHasModern
        /\ EveryPairHasSuggestions
        /\ Len(SuggestionsData) > 0
        /\ \E i \in 1..Len(Customized) :
              /\ call.out = Customized[i].suggestion
              /\ \A j \in 1..Len(Customized) :
                    PriorityRank(Customized[j].priority) <= PriorityRank(Customized[i].priority)

\* the primary suggestion of a colonial office, neither of which the
\* knowledge base knows
C26_Witness ==
    /\ call.fn = "get_primary_suggestion"
    /\ analysis.room_type = "office" /\ analysis.style = "colonial"
    /\ Len(SuggestionsData) = 1
    /\ call.out = SuggestionsData[1].suggestion

\* the labels the two identifiers choose from are members of the enumerations
LabelsInEnums ==
    /\ \A i \in 1..Len(room_types) : Replace(room_types[i], " ", "_") \in RoomType
    /\ \A i \in 1..Len(style_types) : style_types[i] \in StyleType
    /\ \A i \in 1..Len(style_keywords) : style_keywords[i].style \in StyleType

\* C27: the room label of every analysis, spaces replaced by underscores,
\* is a member of RoomType and the style label a member of StyleType, for
\* keyword matches, classifier arg-max labels, defaults and failure
\* defaults alike; so analyze_image on an opened image never ends with
\* ImageProcessingError.
C27_LabelsAreEnumMembers ==
    AnalysedImage =>
        /\ LabelsInEnums
        /\ call.error = "none"
        /\ analysis.room_type \in RoomType
        /\ analysis.style \in StyleType

\* the classifier's "pool area" became pool_area
C27_Witness ==
    /\ AnalysedImage
    /\ call.error = "none"
    /\ call.clfRoom.ok /\ room_types[call.clfRoom.idx] = "pool area"
    /\ analysis.room_type = "pool_area"
    /\ analysis.style = "mediterranean"

-----------------------------------------------------------------------------
(* The API Endpoints and Their Temporary Files (SpecApi)                    *)
(* src/src/api/routes.py, src/src/services/file_service.py.  The handlers   *)
(* are coroutines without an await between the creation of the temporary    *)
(* file and the response, so one request is one step.  os.remove is taken   *)
(* to succeed whenever cleanup_file calls it.                               *)

\* requests served in one behaviour
MaxRequests == 3

\* the value of temp_file_path / optimized_file_path before assignment
NoPath == << 0, "none" >>

\* save_uploaded_file names the file of the n-th request by a fresh uuid4
unique_filename(n) == << n, "upload" >>

\* the name optimize_image_for_processing derives from the uploaded file's:
\* the suffix replaced by "_optimized.jpg"
optimized_path(file_path) == << file_path[1], "optimized" >>

\* FileService.cleanup_file
cleanup_file(files, file_path) == files \ { file_path }

\* FileService.save_uploaded_file: the file is written, then validated; an
\* invalid file is removed again before the error is raised
save_uploaded_file(files, file_path, is_valid) ==
    LET written == files \cup { file_path }
    IN  IF is_valid
        THEN [ files |-> written, error |-> "none", path |-> file_path ]
        ELSE [ files |-> cleanup_file(written, file_path),
               error |-> "FileProcessingError", path |-> NoPath ]

\* FileService.create_temp_file_from_upload
create_temp_file_from_upload(files, file_path, is_valid) ==
    save_uploaded_file(files, file_path, is_valid)

\* FileService.optimize_image_for_processing: the optimized copy and its
\* path, or the original path when the optimization fails
optimize_image_for_processing(files, file_path, saved) ==
    IF saved
    THEN [ files |-> files \cup { optimized_path(file_path) },
           path  |-> optimized_path(file_path) ]
    ELSE [ files |-> files, path |-> file_path ]

\* FileService.get_image_info: the information, or FileProcessingError when
\* opening or measuring the file raises
get_image_info(opened) ==
    [ error |-> IF opened THEN "none" ELSE "FileProcessingError" ]

\* the finally block of process_image and of analyze_image
cleanup_temporary_files(files, temp_file_path, optimized_file_path) ==
    LET after_temp == IF temp_file_path # NoPath
                      THEN cleanup_file(files, temp_file_path) ELSE files
    IN  IF optimized_file_path # NoPath /\ optimized_file_path # temp_file_path
        THEN cleanup_file(after_temp, optimized_file_path)
        ELSE after_temp

\* the status code of the response of process_image and of analyze_image:
\* the exception's own for a RealEstateAIException, 500 for any other, the
\* HTTPException of the content-type test included
status_code(error) ==
    CASE error = "none"                 -> 200
      [] error = "FileProcessingError"  -> 422
      [] error = "ImageProcessingError" -> 422
      [] error = "ModelLoadingError"    -> 503
      [] OTHER                          -> 500

\* what ai_service.analyze_image makes of the file an endpoint hands it: an
\* image that cannot be read or decoded, or an analysis
ApiAnalyses ==
    { [ error |-> analyze_image(path, << >>, Raised, Raised).error, result |-> None ] :
        path \in { "unreadable", "undecodable" } }
    \cup { [ error |-> run.out.error, result |-> run.out.result ] :
             run \in { r \in ImageAnalyses : r.clfRoom = Raised /\ r.clfStyle = Raised } }

\* the body shared by process_image and analyze_image up to the analysis,
\* and their finally block; with_suggestions tells process_image apart
ImageEndpoint(fn, with_suggestions) ==
    /\ call = NoCall
    /\ analysis = None
    /\ requests < MaxRequests
    /\ models_loaded \/ load_calls < MaxLoads
    /\ \E content_type_ok \in BOOLEAN, is_valid \in BOOLEAN, saved \in BOOLEAN,
          fail_at \in (IF models_loaded THEN { 0 } ELSE LoadOutcomes),
          service \in ApiAnalyses :
          LET n       == requests + 1
              made    == IF content_type_ok
                         THEN create_temp_file_from_upload(temp_files, unique_filename(n), is_valid)
                         ELSE [ files |-> temp_files, error |-> "HTTPException", path |-> NoPath ]
              opt     == IF made.error = "none"
                         THEN optimize_image_for_processing(made.files, made.path, saved)
                         ELSE [ files |-> made.files, path |-> NoPath ]
              mm      == IF made.error = "none"
                         THEN ensure_models_loaded(models_loaded, model_handles, load_calls, fail_at)
                         ELSE [ models_loaded |-> models_loaded, model_handles |-> model_handles,
                                load_calls |-> load_calls, error |-> "none" ]
              error   == IF made.error # "none" THEN made.error
                         ELSE IF mm.error # "none" THEN mm.error
                         ELSE service.error
          IN  /\ temp_files' = cleanup_temporary_files(opt.files, made.path, opt.path)
              /\ models_loaded' = mm.models_loaded
              /\ model_handles' = mm.model_handles
              /\ load_calls' = mm.load_calls
              /\ enhancement_db' =
                    IF with_suggestions /\ error = "none"
                    THEN suggestions_after_customizing(enhancement_db, service.result,
                            1..Len(get_enhancement_suggestions(enhancement_db, service.result)))
                    ELSE enhancement_db
              /\ call' = [ fn |-> fn, request |-> n, status |-> status_code(error),
                           error |-> error,
                           temp_file_path |-> made.path, optimized_file_path |-> opt.path,
                           created |-> opt.files \ temp_files ]
              /\ requests' = n
    /\ UNCHANGED << caption, analysis >>

\* POST /process-image
PostProcessImage == ImageEndpoint("process_image", TRUE)

\* POST /analyze-image
PostAnalyzeImage == ImageEndpoint("analyze_image_endpoint", FALSE)

\* POST /upload: no finally block; the file is removed after get_image_info
\* returned, and every exception becomes a 500
PostUpload ==
    /\ call = NoCall
    /\ analysis = None
    /\ requests < MaxRequests
    /\ \E content_type_ok \in BOOLEAN, is_valid \in BOOLEAN, opened \in BOOLEAN :
          LET n     == requests + 1
              made  == IF content_type_ok
                       THEN create_temp_file_from_upload(temp_files, unique_filename(n), is_valid)
                       ELSE [ files |-> temp_files, error |-> "HTTPException", path |-> NoPath ]
              error == IF made.error # "none" THEN made.error
                       ELSE get_image_info(opened).error
          IN  /\ temp_files' = IF error = "none"
                               THEN cleanup_file(made.files, made.path)
                               ELSE made.files
              /\ call' = [ fn |-> "upload_file", request |-> n,
                           status |-> IF error = "none" THEN 200 ELSE 500,
                           error |-> error,
                           temp_file_path |-> made.path, optimized_file_path |-> NoPath,
                           created |-> made.files \ temp_files ]
              /\ requests' = n
    /\ UNCHANGED << caption, enhancement_db, analysis, manager_vars >>

NextApi ==
    \/ PostProcessImage
    \/ PostAnalyzeImage
    \/ PostUpload
    \/ Return

SpecApi == InitService /\ [][NextApi]_vars

\* the endpoints that create a temporary file
FileEndpoints == { "process_image", "analyze_image_endpoint", "upload_file" }

\* C28: when process-image, analyze-image or upload responds, the uploaded
\* temporary file and any distinct optimized copy the request created have
\* been removed, on the success path and on every failure path.
C28_TempFilesRemoved ==
    call.fn \in FileEndpoints =>
        /\ call.temp_file_path \notin temp_files
        /\ call.optimized_file_path \notin temp_files
        /\ call.created \cap temp_files = {}

-----------------------------------------------------------------------------
(* The Monolithic Variant (SpecLegacy)                                      *)
(* src/real_estate_agent.py, class RealEstateGraphicDesigner.  Its          *)
(* room_types, style_types, style_keywords, clutter_keywords and            *)
(* empty_keywords are the lists of the service, and its                     *)
(* _detect_editable_areas is the service's.                                 *)

\* str.replace(old, new) for a non-empty old of any length
RECURSIVE ReplaceStr(_, _, _)
ReplaceStr(s, old, new) ==
    IF Len(s) < Len(old) THEN s
    ELSE IF SubSeq(s, 1, Len(old)) = old
    THEN new \o ReplaceStr(SubSeq(s, Len(old) + 1, Len(s)), old, new)
    ELSE SubSeq(s, 1, 1) \o ReplaceStr(SubSeq(s, 2, Len(s)), old, new)

\* RealEstateGraphicDesigner._load_enhancement_database
enhancement_suggestions ==
    [ living_room |-> [
          modern |-> <<
              "Add a sleek sectional sofa in neutral tones, remove outdated furniture",
              "Install contemporary lighting fixtures, enhance natural light",
              "Add modern coffee table with clean lines, declutter surfaces",
              "Enhance walls with modern art pieces, remove personal items" >>,
          traditional |-> <<
              "Add classic leather armchair in rich brown, remove clutter",
              "Enhance fireplace with elegant mantelpiece decor, organize books",
              "Add traditional area rug with warm patterns, remove worn items",
              "Install classic table lamps, improve ambient lighting" >>,
          rustic |-> <<
              "Add reclaimed wood coffee table, remove modern elements",
              "Enhance with cozy throw blankets and pillows, declutter",
              "Add vintage wooden accents, remove plastic items",
              "Install wrought iron lighting fixtures, create warm ambiance" >> ],
      kitchen |-> [
          modern |-> <<
              "Enhance countertops with quartz surfaces, remove clutter including dishes",
              "Add stainless steel appliances, remove outdated equipment",
              "Install pendant lighting over island, improve task lighting",
              "Add modern bar stools, remove mismatched seating" >>,
          traditional |-> <<
              "Enhance with granite countertops, organize cooking utensils",
              "Add wooden cutting boards and copper accents, remove clutter",
              "Install classic cabinet hardware, update drawer pulls",
              "Add traditional ceramic backsplash, remove worn tiles" >> ],
      bedroom |-> [
          modern |-> <<
              "Add platform bed with clean lines, remove personal items",
              "Enhance with minimalist nightstands, declutter surfaces",
              "Install contemporary lighting, improve ambient mood",
              "Add modern dresser with sleek handles, organize clothing" >>,
          traditional |-> <<
              "Add classic wooden bed frame, remove modern elements",
              "Enhance with traditional bedding and pillows, organize linens",
              "Install elegant table lamps, create warm lighting",
              "Add antique dresser with ornate details, declutter" >> ],
      bathroom |-> [
          modern |-> <<
              "Enhance vanity with modern vessel sink, remove personal toiletries",
              "Add frameless glass shower doors, update outdated fixtures",
              "Install contemporary faucets and hardware, remove rust stains",
              "Add modern mirror with LED lighting, improve visibility" >>,
          traditional |-> <<
              "Enhance with classic pedestal sink, organize bathroom items",
              "Add traditional shower curtain, remove worn fixtures",
              "Install vintage-style faucets, update hardware",
              "Add ornate mirror frame, improve lighting" >> ],
      balcony |-> [
          modern |-> <<
              "Add contemporary outdoor furniture, remove weathered items",
              "Enhance with modern planters and greenery, organize space",
              "Install sleek outdoor lighting, improve ambiance",
              "Add weather-resistant cushions, remove faded textiles" >>,
          traditional |-> <<
              "Add classic outdoor dining set, remove clutter",
              "Enhance with traditional planters and flowers, organize garden tools",
              "Install lantern-style lighting, create cozy atmosphere",
              "Add comfortable outdoor cushions, remove worn furniture" >> ],
      garden |-> [
          modern |-> <<
              "Add geometric planters with structured landscaping, remove weeds",
              "Enhance pathways with modern stone tiles, clear debris",
              "Install contemporary outdoor lighting, improve visibility",
              "Add minimalist water feature, remove overgrown plants" >>,
          traditional |-> <<
              "Add classic garden borders with colorful flowers, remove dead plants",
              "Enhance with traditional garden furniture, organize tools",
              "Install vintage-style garden lights, create warm ambiance",
              "Add ornate planters with seasonal blooms, clear weeds" >> ],
      pool |-> [
          modern |-> <<
              "Add contemporary pool furniture, remove outdated equipment",
              "Enhance deck with modern tiles, clean and organize",
              "Install sleek pool lighting, improve safety and ambiance",
              "Add modern umbrellas and loungers, remove worn items" >>,
          traditional |-> <<
              "Add classic pool furniture with cushions, remove clutter",
              "Enhance with traditional deck materials, organize pool equipment",
              "Install elegant outdoor lighting, improve atmosphere",
              "Add decorative planters around pool area, remove debris" >> ] ]

\* the list suggest_enhancement uses when the lookup gave none
general_suggestions ==
    << "Add modern furniture pieces, remove clutter and personal items",
       "Enhance lighting and ambiance, organize existing elements",
       "Add decorative elements matching the style, declutter surfaces" >>

\* the dict of the legacy _customize_suggestion, in insertion order
priority_keywords ==
    << [room_key |-> "kitchen",  keywords |-> << "counter", "sink", "cabinet", "appliance" >>],
       [room_key |-> "living",   keywords |-> << "sofa", "chair", "table", "fireplace" >>],
       [room_key |-> "bedroom",  keywords |-> << "bed", "nightstand", "dresser", "closet" >>],
       [room_key |-> "bathroom", keywords |-> << "sink", "shower", "bathtub", "vanity" >>],
       [room_key |-> "outdoor",  keywords |-> << "furniture", "plant", "deck", "patio" >>] >>

\* the legacy _identify_room_type: the caption keyword first, then the
\* arg-max above 0.3, then "living room"; nothing is caught
designer_identify_room_type(cap, clf) ==
    LET caption_lower == Lower(cap)
        hits == { i \in 1..Len(room_types) :
                    Contains(Replace(caption_lower, " ", ""), Replace(room_types[i], " ", "")) }
    IN  IF hits # {} THEN room_types[Min(hits)]
        ELSE IF clf.prob > RoomThreshold THEN room_types[clf.idx]
        ELSE "living room"

\* the legacy _identify_style: the first style with a keyword in the
\* caption, then the arg-max above 0.25, then "modern"
designer_identify_style(cap, clf) ==
    LET caption_lower == Lower(cap)
        hits == { i \in 1..Len(style_keywords) :
                    AnyKeywordIn(style_keywords[i].keywords, caption_lower) }
    IN  IF hits # {} THEN style_keywords[Min(hits)].style
        ELSE IF clf.prob > StyleThreshold THEN style_types[clf.idx]
        ELSE "modern"

\* the legacy _analyze_clutter_and_spaces
designer_analyze_clutter_and_spaces(cap) ==
    LET caption_lower    == Lower(cap)
        has_clutter      == AnyKeywordIn(clutter_keywords, caption_lower)
        has_empty_spaces == AnyKeywordIn(empty_keywords, caption_lower)
    IN  [ has_clutter       |-> has_clutter,
          has_empty_spaces  |-> has_empty_spaces,
          clutter_level     |-> IF has_clutter THEN "high" ELSE "low",
          space_utilization |-> IF has_empty_spaces THEN "underutilized" ELSE "well-utilized" ]

\* the legacy analyze_image: an exception of the captioning model or of a
\* CLIP call leaves it
designer_analyze_image(blip, clfRoom, clfStyle) ==
    IF ~blip.ok \/ ~clfRoom.ok \/ ~clfStyle.ok
    THEN [ error |-> "Exception", result |-> None ]
    ELSE [ error  |-> "none",
           result |-> [ caption          |-> blip.text,
                        room_type        |-> designer_identify_room_type(blip.text, clfRoom),
                        style            |-> designer_identify_style(blip.text, clfStyle),
                        editable_areas   |-> _detect_editable_areas(blip.text),
                        clutter_analysis |-> designer_analyze_clutter_and_spaces(blip.text) ] ]

\* the points one entry of priority_keywords gives a suggestion
RECURSIVE KeywordScore(_, _, _, _)
KeywordScore(entries, room_type, caption_lower, suggestion_lower) ==
    IF Len(entries) = 0 THEN 0
    ELSE (IF Contains(room_type, entries[1].room_key)
          THEN LET kw == entries[1].keywords
                   both == { i \in 1..Len(kw) :
                               Contains(caption_lower, kw[i]) /\ Contains(suggestion_lower, kw[i]) }
                   only == { i \in 1..Len(kw) :
                               Contains(caption_lower, kw[i]) /\ ~Contains(suggestion_lower, kw[i]) }
               IN  2 * Cardinality(both) + Cardinality(only)
          ELSE 0)
         + KeywordScore(Tail(entries), room_type, caption_lower, suggestion_lower)

\* relevance_score of one suggestion in the loop of the legacy _customize_suggestion
relevance_score(suggestion, an, cap) ==
    LET suggestion_lower == Lower(suggestion)
    IN  KeywordScore(priority_keywords, an.room_type, Lower(cap), suggestion_lower)
        + (IF an.clutter_analysis.has_clutter /\ Contains(suggestion_lower, "remove")
           THEN 3 ELSE 0)
        + (IF an.clutter_analysis.has_empty_spaces /\ Contains(suggestion_lower, "add")
           THEN 2 ELSE 0)

\* faulty variant of best_suggestion: the suggestion of the highest score
best_suggestion_highest_score(base_suggestions, an, cap) ==
    LET top == CHOOSE i \in 1..Len(base_suggestions) :
                  \A j \in 1..Len(base_suggestions) :
                     relevance_score(base_suggestions[j], an, cap)
                        <= relevance_score(base_suggestions[i], an, cap)
    IN  IF relevance_score(base_suggestions[top], an, cap) > 0
        THEN base_suggestions[top] ELSE base_suggestions[1]

\* best_suggestion when the loop of the legacy _customize_suggestion ends
best_suggestion(base_suggestions, an, cap) ==
    LET positive == { i \in 1..Len(base_suggestions) :
                        relevance_score(base_suggestions[i], an, cap) > 0 }
    IN  IF positive # {} THEN base_suggestions[Min(positive)] ELSE base_suggestions[1]

\* faulty variant of add_clutter_removal: "remove" is looked for in the
\* lower-cased suggestion
add_clutter_removal_lowercase_test(best, an) ==
    IF an.clutter_analysis.has_clutter /\ ~Contains(Lower(best), "remove clutter")
    THEN IF Contains(Lower(best), "remove")
         THEN ReplaceStr(best, "remove", "remove clutter and")
         ELSE best \o ", remove clutter and personal items"
    ELSE best

\* the last step of the legacy _customize_suggestion
add_clutter_removal(best, an) ==
    IF an.clutter_analysis.has_clutter /\ ~Contains(Lower(best), "remove clutter")
    THEN IF Contains(best, "remove")
         THEN ReplaceStr(best, "remove", "remove clutter and")
         ELSE best \o ", remove clutter and personal items"
    ELSE best

\* RealEstateGraphicDesigner._customize_suggestion; base_suggestions[0] of
\* an empty list raises
designer_customize_suggestion(base_suggestions, an, cap) ==
    IF Len(base_suggestions) = 0
    THEN [ error |-> "IndexError", selected |-> "", out |-> "" ]
    ELSE [ error    |-> "none",
           selected |-> best_suggestion(base_suggestions, an, cap),
           out      |-> add_clutter_removal(best_suggestion(base_suggestions, an, cap), an) ]

\* faulty variant of base_suggestions: the room key is the first word of
\* the room type
base_suggestions_first_word(db, an) ==
    LET hits      == { i \in 1..Len(an.room_type) : SubSeq(an.room_type, i, i) = " " }
        room_type == IF hits = {} THEN an.room_type
                     ELSE SubSeq(an.room_type, 1, Min(hits) - 1)
        style     == an.style
        found     == IF room_type \in DOMAIN db
                     THEN IF style \in DOMAIN db[room_type] THEN db[room_type][style]
                          ELSE IF "modern" \in DOMAIN db[room_type]
                          THEN db[room_type]["modern"] ELSE << >>
                     ELSE << >>
    IN  IF found = << >> THEN general_suggestions ELSE found

\* base_suggestions of suggest_enhancement when it calls _customize_suggestion
base_suggestions(db, an) ==
    LET room_type == Replace(an.room_type, " ", "_")
        style     == an.style
        found     == IF room_type \in DOMAIN db
                     THEN IF style \in DOMAIN db[room_type] THEN db[room_type][style]
                          ELSE IF "modern" \in DOMAIN db[room_type]
                          THEN db[room_type]["modern"] ELSE << >>
                     ELSE << >>
    IN  IF found = << >> THEN general_suggestions ELSE found

\* RealEstateGraphicDesigner.suggest_enhancement on the analysis it made
suggest_enhancement(db, an) ==
    designer_customize_suggestion(base_suggestions(db, an), an, an.caption)

\* captions of the captioning model for the monolithic variant
LegacyCaptions ==
    { "a kitchen with a sink and dishes",
      "an empty living room with a sofa",
      "a swimming pool area with chairs",
      "a messy classic bedroom with a bed",
      "a backyard",
      "a pile of clothes on the floor" }

\* what the CLIP calls give: an exception, every label as a confident
\* arg-max, or "bedroom" / "contemporary" at the threshold
LegacyRoomClf ==
    { Raised, [ok |-> TRUE, idx |-> 2, prob |-> RoomThreshold] }
        \cup [ok : {TRUE}, idx : 1..Len(room_types), prob : {RoomThreshold + 1}]

LegacyStyleClf ==
    { Raised, [ok |-> TRUE, idx |-> 2, prob |-> StyleThreshold] }
        \cup [ok : {TRUE}, idx : 1..Len(style_types), prob : {StyleThreshold + 1}]

\* the outcomes of the legacy analyze_image
LegacyAnalyses ==
    { designer_analyze_image(blip, clfRoom, clfStyle) :
        blip \in { Raised } \cup [ok : {TRUE}, text : LegacyCaptions],
        clfRoom \in LegacyRoomClf, clfStyle \in LegacyStyleClf }

\* texts of candidate lists handed to _customize_suggestion
LegacyTexts ==
    { "Install lamp", "Add shelving by the sink", "Remove worn rug",
      "Tidy, REMOVE CLUTTER", "Clean sink, remove stains, remove rust" }

\* candidate lists of one to MaxCands texts
LegacyCandidateLists ==
    UNION { [1..n -> LegacyTexts] : n \in 1..MaxCands }

InitLegacy ==
    /\ caption = ""
    /\ enhancement_db = enhancement_suggestions
    /\ analysis = None
    /\ call = NoCall
    /\ models_loaded = TRUE
    /\ model_handles = LoadedBy(1)
    /\ load_calls = 1
    /\ temp_files = {}
    /\ requests = 0

\* suggest_enhancement: the analysis, the lookup and the customization
SuggestEnhancement ==
    /\ call = NoCall
    /\ analysis = None
    /\ \E run \in LegacyAnalyses :
          IF run.error # "none"
          THEN /\ call' = [ fn |-> "suggest_enhancement", error |-> run.error ]
               /\ UNCHANGED << caption, analysis >>
          ELSE /\ analysis' = run.result
               /\ caption' = run.result.caption
               /\ \E r \in { suggest_enhancement(enhancement_db, run.result) } :
                     call' = [ fn |-> "suggest_enhancement", error |-> r.error,
                               base_suggestions |-> base_suggestions(enhancement_db, run.result),
                               selected |-> r.selected, out |-> r.out ]
    /\ UNCHANGED << enhancement_db, manager_vars, file_vars >>

\* analyze_image called on its own
DesignerAnalyzeImage ==
    /\ call = NoCall
    /\ analysis = None
    /\ \E run \in LegacyAnalyses :
          /\ call' = [ fn |-> "designer_analyze_image", error |-> run.error ]
          /\ analysis' = IF run.error = "none" THEN run.result ELSE analysis
          /\ caption' = IF run.error = "none" THEN run.result.caption ELSE caption
    /\ UNCHANGED << enhancement_db, manager_vars, file_vars >>

\* _customize_suggestion called with a candidate list, an analysis and its caption
DesignerCustomizeSuggestion ==
    /\ call = NoCall
    /\ analysis # None
    /\ \E list \in LegacyCandidateLists \cup { << >> } :
          \E r \in { designer_customize_suggestion(list, analysis, caption) } :
             call' = [ fn |-> "designer_customize_suggestion", error |-> r.error,
                       base_suggestions |-> list,
                       selected |-> r.selected, out |-> r.out ]
    /\ UNCHANGED << caption, enhancement_db, analysis, manager_vars, file_vars >>

\* the caller drops the analysis
DesignerDone ==
    /\ call = NoCall
    /\ analysis # None
    /\ analysis' = None
    /\ caption' = ""
    /\ UNCHANGED << enhancement_db, call, manager_vars, file_vars >>

NextLegacy ==
    \/ SuggestEnhancement
    \/ DesignerAnalyzeImage
    \/ DesignerCustomizeSuggestion
    \/ DesignerDone
    \/ Return

SpecLegacy == InitLegacy /\ [][NextLegacy]_vars

-----------------------------------------------------------------------------
(* Properties of the Monolithic Variant (SpecLegacy)                        *)

\* a call of the legacy _customize_suggestion that returned, made directly
\* or by suggest_enhancement
DesignerCustomized ==
    /\ call.fn \in { "designer_customize_suggestion", "suggest_enhancement" }
    /\ call.error = "none"

\* the keywords of the rooms whose key occurs in the analysed room type
RoomKeywords ==
    { kw \in { "counter", "sink", "cabinet", "appliance", "sofa", "chair", "table",
               "fireplace", "bed", "nightstand", "dresser", "closet", "shower",
               "bathtub", "vanity", "furniture", "plant", "deck", "patio" } :
        \/ Contains(analysis.room_type, "kitchen")
              /\ kw \in { "counter", "sink", "cabinet", "appliance" }
        \/ Contains(analysis.room_type, "living")
              /\ kw \in { "sofa", "chair", "table", "fireplace" }
        \/ Contains(analysis.room_type, "bedroom")
              /\ kw \in { "bed", "nightstand", "dresser", "closet" }
        \/ Contains(analysis.room_type, "bathroom")
              /\ kw \in { "sink", "shower", "bathtub", "vanity" }
        \/ Contains(analysis.room_type, "outdoor")
              /\ kw \in { "furniture", "plant", "deck", "patio" } }

\* the score the scoring rule gives the i-th candidate of the call
CandidateScore(i) ==
    LET candidate == Lower(call.base_suggestions[i])
        cap       == Lower(caption)
    IN  (IF analysis.clutter_analysis.has_clutter /\ Contains(candidate, "remove") THEN 3 ELSE 0)
        + (IF analysis.clutter_analysis.has_empty_spaces /\ Contains(candidate, "add") THEN 2 ELSE 0)
        + 2 * Cardinality({ kw \in RoomKeywords : Contains(cap, kw) /\ Contains(candidate, kw) })
        + Cardinality({ kw \in RoomKeywords : Contains(cap, kw) /\ ~Contains(candidate, kw) })

C29_ClutterRemovalMentioned ==
    DesignerCustomized =>
        IF analysis.clutter_analysis.has_clutter
        THEN /\ Contains(Lower(call.out), "remove clutter")
             /\ \/ Contains(Lower(call.selected), "remove clutter") /\ call.out = call.selected
                \/ /\ Contains(call.selected, "remove")
                   /\ call.out = ReplaceStr(call.selected, "remove", "remove clutter and")
                \/ call.out = call.selected \o ", remove clutter and personal items"
        ELSE call.out = call.selected

C29_Witness ==
    /\ call.fn = "designer_customize_suggestion"
    /\ call.error = "none"
    /\ analysis.clutter_analysis.has_clutter
    /\ call.selected = "Remove worn rug"
    /\ call.out = "Remove worn rug, remove clutter and personal items"

\* the "pool" lists of the knowledge base
PoolEntries ==
    { enhancement_suggestions["pool"][style] : style \in DOMAIN enhancement_suggestions["pool"] }

\* C30: suggest_enhancement for "pool area" looks up "pool_area", which the
\* knowledge base lacks, and works on the three general suggestions whatever
\* the style; no room type of room_types gives the key "pool", so no call
\* works on the "pool" lists.
C30_PoolEntriesUnused ==
    /\ "pool" \in DOMAIN enhancement_db
    /\ "pool_area" \notin DOMAIN enhancement_db
    /\ \A i \in 1..Len(room_types) : Replace(room_types[i], " ", "_") # "pool"
    /\ (call.fn = "suggest_enhancement" /\ call.error = "none") =>
          /\ call.base_suggestions \notin PoolEntries
          /\ analysis.room_type = "pool area" =>
                /\ call.base_suggestions = general_suggestions
                /\ call.selected \in { general_suggestions[i] : i \in 1..Len(general_suggestions) }

C30_Witness ==
    /\ call.fn = "suggest_enhancement"
    /\ call.error = "none"
    /\ analysis.room_type = "pool area"
    /\ analysis.style = "traditional"
    /\ call.base_suggestions = general_suggestions
    /\ call.out = "Add modern furniture pieces, remove clutter and personal items"

=============================================================================
